---- MODULE Spec2Model ----
(***************************************************************************)
(* Model of the tool-augmented generation orchestrator                     *)
(* (backend/ai_generator.py) and of the tool registry and tools            *)
(* (backend/search_tools.py).                                              *)
(*                                                                         *)
(* Text is a sequence of tokens: a token is a whole literal piece of text  *)
(* or, where the code inspects the characters (the failure description of  *)
(* an upstream error), a single character.  String concatenation is \o,    *)
(* the empty string is <<>>.  An optional value (Python's None) is a       *)
(* sequence of length 0 (None) or 1 (the value).                           *)
(***************************************************************************)
EXTENDS Integers, Sequences, FiniteSets, TLC

VARIABLES
    current_model,      \* AIGenerator.current_model
    fallback_models,    \* AIGenerator.fallback_models
    last_model_used,    \* AIGenerator.last_model_used
    tools,              \* ToolManager.tools: insertion-ordered name -> tool instance
    registrations,      \* the tools register_tool() accepted so far, in order
    last_sources,       \* CourseSearchTool.last_sources, per tool instance that has the attribute
    pc,                 \* position of the generate_response() call in progress
    tools_arg,          \* generate_response(tools=...): TRUE when a non-empty list was passed
    tool_manager,       \* generate_response(tool_manager=...): TRUE when a registry was passed
    messages,           \* local `messages` of generate_response / _handle_tool_execution
    api_params,         \* local `api_params` (base_params of the round loop)
    next_params,        \* local `next_params` of _handle_tool_execution
    models_to_try,      \* local `models_to_try` of generate_response
    model_index,        \* local `model_index` of generate_response (1-based)
    fb_models_to_try,   \* local `models_to_try` of _make_api_call_with_fallback
    fb_model_index,     \* local `model_index` of _make_api_call_with_fallback (1-based)
    current_round,      \* local `current_round` of _handle_tool_execution
    current_response,   \* local `current_response` / `response`
    tool_index,         \* position of the `for tool_call in tool_calls` loop (1-based)
    error_msg,          \* str(e) of the failure that ended the fallback chain
    result,             \* what generate_response() gave its caller: [kind, value]
    upstream,           \* every client.chat.completions.create(**params) made in this call
    executed            \* every tool_manager.execute_tool(name, **kwargs) made in this call

vars == << current_model, fallback_models, last_model_used, tools, registrations,
           last_sources,
           pc, tools_arg, tool_manager, messages, api_params, next_params,
           models_to_try, model_index, fb_models_to_try, fb_model_index,
           current_round, current_response,
           tool_index, error_msg, result, upstream, executed >>

(***************************************************************************)
(* Bounds of the model.                                                    *)
(***************************************************************************)
\* Tool calls the provider may request, summed over the responses of one generate_response().
MaxToolCalls == 3

(***************************************************************************)
(* Optional values and text.                                               *)
(***************************************************************************)
None == <<>>
Some(v) == <<v>>
IsNone(o) == o = <<>>
Get(o) == o[1]

\* Python's `x or ""` for an optional string: None and "" both give "".
OrEmpty(o) == IF IsNone(o) THEN <<>> ELSE Get(o)

\* Python's `sub in s` on sequences of characters.
Contains(s, sub) ==
    \E i \in 0..(Len(s) - Len(sub)) :
        \A j \in 1..Len(sub) : s[i + j] = sub[j]

UpperAlpha == <<"A", "B", "C", "D", "E", "F", "G", "H", "I", "J", "K", "L", "M",
                "N", "O", "P", "Q", "R", "S", "T", "U", "V", "W", "X", "Y", "Z">>
LowerAlpha == <<"a", "b", "c", "d", "e", "f", "g", "h", "i", "j", "k", "l", "m",
                "n", "o", "p", "q", "r", "s", "t", "u", "v", "w", "x", "y", "z">>

LowerChar(c) ==
    IF \E i \in 1..Len(UpperAlpha) : UpperAlpha[i] = c
    THEN LowerAlpha[CHOOSE i \in 1..Len(UpperAlpha) : UpperAlpha[i] = c]
    ELSE c
UpperChar(c) ==
    IF \E i \in 1..Len(LowerAlpha) : LowerAlpha[i] = c
    THEN UpperAlpha[CHOOSE i \in 1..Len(LowerAlpha) : LowerAlpha[i] = c]
    ELSE c

\* str.lower() and str.upper()
Lower(s) == [i \in 1..Len(s) |-> LowerChar(s[i])]
Upper(s) == [i \in 1..Len(s) |-> UpperChar(s[i])]

\* s[:n]
Prefix(s, n) == SubSeq(s, 1, IF Len(s) < n THEN Len(s) ELSE n)

(***************************************************************************)
(* Failure descriptions str(e) an upstream call may raise with.            *)
(***************************************************************************)
DescConnection == <<"C", "o", "n", "n", "e", "c", "t", "i", "o", "n", " ", "e", "r", "r", "o", "r">>
DescConnectUpper == <<"F", "a", "i", "l", "e", "d", " ", "t", "o", " ", "C", "O", "N", "N", "E", "C", "T">>
DescSsl == <<"s", "s", "l", " ", "h", "a", "n", "d", "s", "h", "a", "k", "e", " ", "f", "a", "i", "l", "e", "d">>
DescCert == <<"C", "e", "r", "t", "i", "f", "i", "c", "a", "t", "e", " ", "v", "e", "r", "i", "f", "y", " ", "f", "a", "i", "l", "e", "d">>
DescTimeout == <<"R", "e", "a", "d", " ", "T", "i", "m", "e", "o", "u", "t">>
DescConnectTimeout == <<"c", "o", "n", "n", "e", "c", "t", " ", "t", "i", "m", "e", "o", "u", "t">>
DescRate == <<"R", "a", "t", "e", " ", "l", "i", "m", "i", "t", " ", "e", "x", "c", "e", "e", "d", "e", "d">>
DescLongLen == 120
DescLong == [i \in 1..DescLongLen |-> IF i <= 100 THEN "x" ELSE "y"]
DescEmpty == <<>>
DescTimedOut == <<"R", "e", "q", "u", "e", "s", "t", " ", "t", "i", "m", "e", "d", " ", "o", "u", "t", ".">>

ErrorDescriptions ==
    { DescConnection, DescConnectUpper, DescSsl, DescCert, DescTimeout,
      DescConnectTimeout, DescRate, DescLong, DescEmpty, DescTimedOut }

(***************************************************************************)
(* Error classification: generate_response lines 183-190 and               *)
(* _handle_api_error lines 392-399.                                        *)
(***************************************************************************)
MsgConnect == <<"I'm unable to connect to the AI service. Please check your network connection or try again later.">>
MsgSsl == <<"I'm experiencing SSL/certificate issues connecting to the AI service. Please contact support.">>
MsgTimeout == <<"The AI service request timed out. Please try again.">>
MsgDifficulties == <<"I'm experiencing technical difficulties. Error: ">>
MsgDifficultiesRound == <<"I'm experiencing technical difficulties processing your request.">>
MsgNoModels == <<"I'm unable to process your request. No AI models are currently available.">>

ERROR_PREFIX_LEN == 100

IsConnectError(e) ==
    \/ Contains(e, <<"C", "o", "n", "n", "e", "c", "t", "i", "o", "n", " ", "e", "r", "r", "o", "r">>)
    \/ Contains(Lower(e), <<"c", "o", "n", "n", "e", "c", "t">>)
IsSslError(e) ==
    \/ Contains(Upper(e), <<"C", "E", "R", "T", "I", "F", "I", "C", "A", "T", "E">>)
    \/ Contains(Upper(e), <<"S", "S", "L">>)
\* Faulty variant: the timeout marker is looked for without lowering the text.
IsTimeoutErrorCaseSensitive(e) ==
    Contains(e, <<"t", "i", "m", "e", "o", "u", "t">>)

IsTimeoutError(e) ==
    Contains(Lower(e), <<"t", "i", "m", "e", "o", "u", "t">>)

\* Faulty variant: the timeout marker is looked for first.
InitialErrorMessageTimeoutFirst(e) ==
    IF IsTimeoutError(e) THEN MsgTimeout
    ELSE IF IsConnectError(e) THEN MsgConnect
    ELSE IF IsSslError(e) THEN MsgSsl
    ELSE MsgDifficulties \o Prefix(e, ERROR_PREFIX_LEN)

\* The except branch of generate_response once every model failed.
InitialErrorMessage(e) ==
    IF IsConnectError(e) THEN MsgConnect
    ELSE IF IsSslError(e) THEN MsgSsl
    ELSE IF IsTimeoutError(e) THEN MsgTimeout
    ELSE MsgDifficulties \o Prefix(e, ERROR_PREFIX_LEN)

\* _handle_api_error(error, messages, round_num)
HandleApiError(e) ==
    IF IsConnectError(e) THEN MsgConnect
    ELSE IF IsSslError(e) THEN MsgSsl
    ELSE IF IsTimeoutError(e) THEN MsgTimeout
    ELSE MsgDifficultiesRound

(***************************************************************************)
(* Retrieval collaborator (vector_store.py, not part of these sources):    *)
(* what store.search() may give back for one call, and the lesson links    *)
(* of the catalog.                                                         *)
(***************************************************************************)
CourseX == <<"Intro to X">>
CourseMcp == <<"MCP">>
DocA == <<"doc a">>
DocB == <<"doc b">>

Meta(title, lesson) == [course_title |-> title, lesson_number |-> lesson]
SearchResults(docs, metas, err) ==
    [raised |-> FALSE, documents |-> docs, metadata |-> metas, error |-> err]

ResultsHit ==
    SearchResults(<<DocA, DocB>>,
                  <<Meta(Some(CourseX), Some(1)), Meta(Some(CourseMcp), None)>>, None)
ResultsHitMcp == SearchResults(<<DocB>>, <<Meta(Some(CourseMcp), Some(2))>>, None)
ResultsEmpty == SearchResults(<<>>, <<>>, None)
ResultsError == SearchResults(<<>>, <<>>, Some(<<"Search error: store unavailable">>))
ResultsRaise ==
    [raised |-> TRUE, documents |-> <<>>, metadata |-> <<>>,
     error |-> Some(<<"store crashed">>)]

\* SearchResults.is_empty()
IsEmpty(results) == Len(results.documents) = 0

\* store.get_lesson_link(course_title, lesson_number): url or None
GetLessonLink(course_title, lesson_num) ==
    IF course_title = CourseX /\ lesson_num \in {0, 1, 2}
    THEN Some(<<"https://x.example/lesson/", ToString(lesson_num)>>)
    ELSE None

(***************************************************************************)
(* CourseSearchTool                                                        *)
(***************************************************************************)
NoKwargs == [query |-> None, course_name |-> None, lesson_number |-> None]

Min(a, b) == IF a < b THEN a ELSE b

\* The header and the source label of one (doc, meta) pair; `meta.get(key, default)`.
CourseTitleOf(meta) ==
    IF IsNone(meta.course_title) THEN <<"unknown">> ELSE Get(meta.course_title)
LessonSuffix(meta) ==
    IF IsNone(meta.lesson_number) THEN <<>>
    ELSE <<" - Lesson ", ToString(Get(meta.lesson_number))>>
Header(meta) == <<"[">> \o CourseTitleOf(meta) \o LessonSuffix(meta) \o <<"]">>
SourceLabel(meta) == CourseTitleOf(meta) \o LessonSuffix(meta)

\* Faulty variant: the lesson number is tested for truth, so lesson 0 gets no link.
NeedsLessonLinkTruthy(meta) ==
    ~IsNone(meta.lesson_number) /\ Get(meta.lesson_number) # 0

\* `if lesson_num is not None:` before the lesson-link lookup (line 117)
NeedsLessonLink(meta) == ~IsNone(meta.lesson_number)

SourceUrl(meta) ==
    IF NeedsLessonLink(meta)
    THEN GetLessonLink(CourseTitleOf(meta), Get(meta.lesson_number))
    ELSE None

\* "\n\n".join(parts)
RECURSIVE JoinBlank(_)
JoinBlank(parts) ==
    IF Len(parts) = 0 THEN <<>>
    ELSE IF Len(parts) = 1 THEN parts[1]
    ELSE parts[1] \o <<"\n\n">> \o JoinBlank(Tail(parts))

\* The `sources` list built by _format_results: one entry per zipped pair.
Sources(results) ==
    [i \in 1..Min(Len(results.documents), Len(results.metadata)) |->
        [label |-> SourceLabel(results.metadata[i]),
         url |-> SourceUrl(results.metadata[i])]]

\* The store.get_lesson_link(course_title, lesson_num) calls _format_results makes,
\* in order: <<course_title, lesson_num>> each.
RECURSIVE LinkLookups(_, _)
LinkLookups(results, i) ==
    IF i > Min(Len(results.documents), Len(results.metadata)) THEN <<>>
    ELSE (IF NeedsLessonLink(results.metadata[i])
          THEN << <<CourseTitleOf(results.metadata[i]),
                    Get(results.metadata[i].lesson_number)>> >>
          ELSE <<>>)
         \o LinkLookups(results, i + 1)

\* Faulty variant: the blocks come out last result first.
FormattedReversed(results) ==
    LET n == Min(Len(results.documents), Len(results.metadata))
    IN [i \in 1..n |->
           Header(results.metadata[n + 1 - i]) \o <<"\n">> \o results.documents[n + 1 - i]]

\* The `formatted` list built by _format_results.
Formatted(results) ==
    [i \in 1..Min(Len(results.documents), Len(results.metadata)) |->
        Header(results.metadata[i]) \o <<"\n">> \o results.documents[i]]

\* Faulty variant: the new sources are appended to the stored ones.
StoreSourcesAppend(stored, sources) == stored \o sources

\* What _format_results stores in self.last_sources, given what was stored.
StoreSources(stored, sources) == sources

\* CourseSearchTool._format_results(results): the text and the new last_sources.
FormatResults(results, stored) ==
    [raised |-> FALSE,
     value |-> JoinBlank(Formatted(results)),
     sources |-> StoreSources(stored, Sources(results)),
     lookups |-> LinkLookups(results, 1)]

\* The filter echo of the empty-result message: `if course_name:`, `if lesson_number:`.
FilterInfo(course_name, lesson_number) ==
    (IF ~IsNone(course_name) /\ Get(course_name) # <<>>
     THEN <<" in course '">> \o Get(course_name) \o <<"'">> ELSE <<>>)
    \o
    (IF ~IsNone(lesson_number) /\ Get(lesson_number) # 0
     THEN <<" in lesson ", ToString(Get(lesson_number))>> ELSE <<>>)

\* Faulty variant: the error is looked at only when there are no documents.
HasErrorWhenEmpty(results) ==
    ~IsNone(results.error) /\ Get(results.error) # <<>> /\ IsEmpty(results)

\* `if results.error:` (line 80)
HasError(results) == ~IsNone(results.error) /\ Get(results.error) # <<>>

\* CourseSearchTool.execute(**kwargs) when store.search() gives `results`;
\* `stored` is self.last_sources before the call.
SearchExecute(kwargs, results, stored) ==
    IF IsNone(kwargs.query)
    THEN [raised |-> TRUE,
          value |-> <<"execute() missing 1 required positional argument: 'query'">>,
          sources |-> stored, lookups |-> <<>>]
    ELSE IF results.raised
    THEN [raised |-> TRUE, value |-> Get(results.error), sources |-> stored,
          lookups |-> <<>>]
    ELSE IF HasError(results)
    THEN [raised |-> FALSE, value |-> Get(results.error), sources |-> stored,
          lookups |-> <<>>]
    ELSE IF IsEmpty(results)
    THEN [raised |-> FALSE,
          value |-> <<"No relevant content found">>
                    \o FilterInfo(kwargs.course_name, kwargs.lesson_number) \o <<".">>,
          sources |-> stored, lookups |-> <<>>]
    ELSE FormatResults(results, stored)

(***************************************************************************)
(* CourseOutlineTool.  `outline` is what the store gives this execution:   *)
(* resolved (the exact title or None), raised (the catalog lookup fails),  *)
(* metadatas (results["metadatas"]: None, or the list of the records'      *)
(* metadata, None for a record that has none), each metadata with optional *)
(* title, instructor, course_link and lessons_json; lessons_json is        *)
(* [valid, objects, lessons]: whether json.loads accepts the text, whether *)
(* the value is a list of objects, and the lessons.                        *)
(***************************************************************************)
Lesson(num, title, link) ==
    [lesson_number |-> num, lesson_title |-> title, lesson_link |-> link]
LessonsJson(valid, lessons) == [valid |-> valid, objects |-> TRUE, lessons |-> lessons]
\* A serialized value that is valid JSON but no list: a number.
LessonsJsonScalar == [valid |-> TRUE, objects |-> FALSE, lessons |-> <<>>]
CourseMetadata(title, instructor, link, lessons_json) ==
    [title |-> title, instructor |-> instructor, course_link |-> link,
     lessons_json |-> lessons_json]
OutlineEnv(resolved, raised, metadatas) ==
    [resolved |-> resolved, raised |-> raised, metadatas |-> metadatas]

McpMetadata(lessons_json) ==
    CourseMetadata(Some(CourseMcp), Some(<<"Ada">>), None, lessons_json)

OutlineFound ==
    OutlineEnv(Some(CourseMcp), FALSE,
        Some(<< Some(McpMetadata(
               Some(LessonsJson(TRUE,
                   << Lesson(Some(0), Some(<<"Intro">>), Some(<<"https://mcp.example/0">>)),
                      Lesson(Some(1), Some(<<"Tools">>), None) >>)))) >>))

\* dict.get(key, default) for text fields
GetOr(field, default) == IF IsNone(field) THEN default ELSE Get(field)

\* A key that is present with the JSON value null: json.loads gives None, which
\* dict.get returns instead of its default.
JsonNull == <<"null (JSON)">>

\* `{value}` in an f-string: str(None) is "None".
FormatValue(value) == IF value = JsonNull THEN <<"None">> ELSE value

\* The two lines rendered for one lesson.
LessonLines(lesson) ==
    << <<"- Lesson ">>
         \o (IF IsNone(lesson.lesson_number) THEN <<"?">>
             ELSE <<ToString(Get(lesson.lesson_number))>>)
         \o <<": ">> \o GetOr(lesson.lesson_title, <<"Untitled">>),
       <<"  Link: ">> \o FormatValue(GetOr(lesson.lesson_link, <<"Not available">>)) >>

RECURSIVE AllLessonLines(_)
AllLessonLines(lessons) ==
    IF Len(lessons) = 0 THEN <<>>
    ELSE LessonLines(Head(lessons)) \o AllLessonLines(Tail(lessons))

\* "\n".join(lines)
RECURSIVE JoinLines(_)
JoinLines(lines) ==
    IF Len(lines) = 0 THEN <<>>
    ELSE IF Len(lines) = 1 THEN lines[1]
    ELSE lines[1] \o <<"\n">> \o JoinLines(Tail(lines))

\* `if not resolved_course_title:` (line 172)
Unresolved(resolved) == IsNone(resolved) \/ Get(resolved) = <<>>

\* Faulty variant: the catalog is asked before the resolution is looked at.
NoCourseFoundAfterLookup(course_name, resolved) ==
    [raised |-> FALSE,
     value |-> <<"No course found matching '">> \o course_name \o <<"'.">>,
     lookups |-> <<resolved>>]

\* Line 173: the answer for a name that does not resolve; no catalog lookup was made.
NoCourseFound(course_name, resolved) ==
    [raised |-> FALSE,
     value |-> <<"No course found matching '">> \o course_name \o <<"'.">>,
     lookups |-> <<>>]

\* Faulty variant: an exception of the try block leaves execute().
OutlineCatchReraises(e) == [raised |-> TRUE, value |-> e]

\* Lines 211-212: `except Exception as e` turns the exception into a text.
OutlineCatch(e) ==
    [raised |-> FALSE, value |-> <<"Error retrieving course outline: ">> \o e]

\* `not results or not results.get("metadatas") or not results["metadatas"]`
MetadataUnavailable(metadatas) == IsNone(metadatas) \/ Len(Get(metadatas)) = 0

\* The try block of execute (lines 176-212) for the resolved title.
OutlineBody(resolved_course_title, outline) ==
    IF outline.raised
    THEN OutlineCatch(<<"catalog unavailable">>)
    ELSE IF MetadataUnavailable(outline.metadatas)
    THEN [raised |-> FALSE,
          value |-> <<"Course '">> \o resolved_course_title
                    \o <<"' found but metadata is unavailable.">>]
    ELSE IF IsNone(Get(outline.metadatas)[1])
    THEN OutlineCatch(<<"'NoneType' object has no attribute 'get'">>)
    ELSE LET metadata == Get(Get(outline.metadatas)[1])
             lessons_json == GetOr(metadata.lessons_json, LessonsJson(TRUE, <<>>))
         IN IF ~lessons_json.valid
            THEN OutlineCatch(<<"Expecting value">>)
            ELSE IF ~lessons_json.objects
            THEN OutlineCatch(<<"'int' object is not iterable">>)
            ELSE [raised |-> FALSE,
                  value |-> JoinLines(
                      << <<"**Course Title:** ">> \o GetOr(metadata.title, <<"Unknown">>),
                         <<"**Instructor:** ">> \o GetOr(metadata.instructor, <<"Unknown">>),
                         <<"**Course Link:** ">>
                             \o GetOr(metadata.course_link, <<"Not available">>),
                         <<>>,
                         <<"**Lessons:**">> >>
                      \o AllLessonLines(lessons_json.lessons))]

\* CourseOutlineTool.execute(**kwargs); `lookups` lists the ids the catalog was
\* asked for (self.store.course_catalog.get(ids=[...]), line 177).
OutlineExecute(kwargs, outline) ==
    IF IsNone(kwargs.course_name) \/ ~IsNone(kwargs.query) \/ ~IsNone(kwargs.lesson_number)
    THEN [raised |-> TRUE, value |-> <<"execute() got unexpected or missing arguments">>,
          lookups |-> <<>>]
    ELSE IF Unresolved(outline.resolved)
    THEN NoCourseFound(Get(kwargs.course_name), outline.resolved)
    ELSE LET body == OutlineBody(Get(outline.resolved), outline)
         IN [raised |-> body.raised, value |-> body.value,
             lookups |-> <<Get(outline.resolved)>>]

(***************************************************************************)
(* ToolManager.  The registry is the insertion-ordered dict self.tools, a  *)
(* sequence of [name, tool].  Tool instances: "search<n>" are              *)
(* CourseSearchTool objects, "outline<n>" CourseOutlineTool objects;       *)
(* "notes1" is another implementation of Tool that keeps last_sources;     *)
(* "nameless1" and "nameless2" are implementations whose definition has no *)
(* name key, or an empty name.                                             *)
(***************************************************************************)
SearchName == "search_course_content"
OutlineName == "get_course_outline"
NotesName == "lookup_notes"
UnknownName == "no_such_tool"

SearchTools == {"search1", "search2"}
OutlineTools == {"outline1"}
NotesTools == {"notes1"}
NamelessTools == {"nameless1", "nameless2"}

\* tool.get_tool_definition().get("function", {}).get("name"): the name or None
DefinitionName(tool) ==
    CASE tool \in SearchTools -> Some(SearchName)
      [] tool \in OutlineTools -> Some(OutlineName)
      [] tool \in NotesTools -> Some(NotesName)
      [] tool = "nameless2" -> Some("")
      [] OTHER -> None

IsRegistered(reg, name) == \E i \in 1..Len(reg) : reg[i].name = name
ToolOf(reg, name) == reg[CHOOSE i \in 1..Len(reg) : reg[i].name = name].tool

\* `if not tool_name: raise ValueError(...)`
RegisterRaises(tool) ==
    IsNone(DefinitionName(tool)) \/ Get(DefinitionName(tool)) = ""

\* Faulty variant: the registry is kept as a list, a registration always appends.
RegisterToolAppend(reg, tool) ==
    IF RegisterRaises(tool) THEN reg
    ELSE Append(reg, [name |-> Get(DefinitionName(tool)), tool |-> tool])

\* register_tool(tool): self.tools afterwards.  `self.tools[tool_name] = tool` on
\* a dict keeps the place of a key that is already there.
RegisterTool(reg, tool) ==
    IF RegisterRaises(tool) THEN reg
    ELSE LET name == Get(DefinitionName(tool))
         IN IF IsRegistered(reg, name)
            THEN [i \in 1..Len(reg) |->
                     IF reg[i].name = name THEN [name |-> name, tool |-> tool] ELSE reg[i]]
            ELSE Append(reg, [name |-> name, tool |-> tool])

\* The definition a tool gives: its type and its name.
ToolDefinition(tool) == [type |-> "function", name |-> DefinitionName(tool)]

\* Faulty variant: the definitions come out last registered first.
GetToolDefinitionsReversed(reg) ==
    [i \in 1..Len(reg) |-> ToolDefinition(reg[Len(reg) + 1 - i].tool)]

\* ToolManager.get_tool_definitions()
GetToolDefinitions(reg) == [i \in 1..Len(reg) |-> ToolDefinition(reg[i].tool)]

\* execute(**kwargs) of the other Tool implementation: a text, and its own sources.
NotesExecute(kwargs, stored) ==
    [raised |-> FALSE, value |-> <<"notes">>,
     sources |-> << [label |-> <<"Notes">>, url |-> None] >>]

\* hasattr(tool, "last_sources")
HasSources(srcs, tool) == tool \in DOMAIN srcs

\* What one execution finds in the store: `results` for store.search(),
\* `outline` for the name resolution and the catalog lookup.
Env(results, outline) == [results |-> results, outline |-> outline]

\* Faulty variant: an unknown name is looked up without the membership test.
NotFoundRaises(tool_name, srcs) ==
    [raised |-> TRUE, value |-> <<"KeyError: '", tool_name, "'">>, srcs |-> srcs,
     ran |-> <<>>]

\* Line 237: the result for a name that is not registered.
NotFound(tool_name, srcs) ==
    [raised |-> FALSE, value |-> <<"Tool '", tool_name, "' not found">>, srcs |-> srcs,
     ran |-> <<>>]

\* ToolManager.execute_tool(tool_name, **kwargs): the outcome and the tools'
\* last_sources afterwards.
\* `ran` lists the tools whose execute() was entered.
ExecuteTool(reg, srcs, tool_name, kwargs, env) ==
    IF ~IsRegistered(reg, tool_name)
    THEN NotFound(tool_name, srcs)
    ELSE LET tool == ToolOf(reg, tool_name)
         IN IF tool \in SearchTools
            THEN LET out == SearchExecute(kwargs, env.results, srcs[tool])
                 IN [raised |-> out.raised,
                     value |-> out.value,
                     srcs |-> [srcs EXCEPT ![tool] = out.sources],
                     ran |-> <<tool>>]
            ELSE IF tool \in NotesTools
            THEN LET out == NotesExecute(kwargs, srcs[tool])
                 IN [raised |-> out.raised,
                     value |-> out.value,
                     srcs |-> [srcs EXCEPT ![tool] = out.sources],
                     ran |-> <<tool>>]
            ELSE LET out == OutlineExecute(kwargs, env.outline)
                 IN [raised |-> out.raised, value |-> out.value, srcs |-> srcs,
                     ran |-> <<tool>>]

\* Faulty variant: the first tool that has the attribute decides, empty or not.
GetLastSourcesOfFirst(reg, srcs) ==
    LET having == { i \in 1..Len(reg) : HasSources(srcs, reg[i].tool) }
    IN IF having = {} THEN <<>>
       ELSE srcs[reg[CHOOSE i \in having : \A j \in having : i <= j].tool]

\* ToolManager.get_last_sources()
RECURSIVE FirstNonEmpty(_, _, _)
FirstNonEmpty(reg, srcs, i) ==
    IF i > Len(reg) THEN <<>>
    ELSE IF HasSources(srcs, reg[i].tool) /\ srcs[reg[i].tool] # <<>>
    THEN srcs[reg[i].tool]
    ELSE FirstNonEmpty(reg, srcs, i + 1)
GetLastSources(reg, srcs) == FirstNonEmpty(reg, srcs, 1)

\* Faulty variant: only the search tools are reset.
ResetSourcesSearchOnly(reg, srcs) ==
    [t \in DOMAIN srcs |->
        IF t \in SearchTools /\ \E i \in 1..Len(reg) : reg[i].tool = t
        THEN <<>> ELSE srcs[t]]

\* Faulty variant: reset_sources leaves every list as it is.
ResetSourcesKeeps(reg, srcs) == srcs

\* ToolManager.reset_sources()
ResetSources(reg, srcs) ==
    [t \in DOMAIN srcs |->
        IF \E i \in 1..Len(reg) : reg[i].tool = t THEN <<>> ELSE srcs[t]]

(***************************************************************************)
(* AIGenerator: requests, responses, transcript.                           *)
(***************************************************************************)
MAX_TOOL_ROUNDS == 2

Models == {"A", "B", "C"}

\* [primary] + [m for m in self.fallback_models if m != primary]
NotPrimary(primary, m) == m # primary

\* Faulty variant: the primary model is not filtered out of the fallback list.
ModelsToTryUnfiltered(primary, fallbacks) == <<primary>> \o fallbacks

ModelsToTry(primary, fallbacks) ==
    <<primary>> \o SelectSeq(fallbacks, LAMBDA m : NotPrimary(primary, m))

SYSTEM_PROMPT == <<"SYSTEM_PROMPT">>
Query == <<"What does MCP cover?">>
History == <<"User: hi\nAssistant: hello">>

Message(role, content, tool_calls, tool_call_id) ==
    [role |-> role, content |-> content, tool_calls |-> tool_calls,
     tool_call_id |-> tool_call_id]

\* system_content of generate_response
SystemContent(conversation_history) ==
    IF ~IsNone(conversation_history) /\ Get(conversation_history) # <<>>
    THEN SYSTEM_PROMPT \o <<"\n\nPrevious conversation:\n">> \o Get(conversation_history)
    ELSE SYSTEM_PROMPT

InitialMessages(query, conversation_history) ==
    << Message("system", Some(SystemContent(conversation_history)), <<>>, None),
       Message("user", Some(query), <<>>, None) >>

\* Faulty variant: the new messages are added to the list of the call before.
NewTranscriptKept(previous, query, conversation_history) ==
    previous \o InitialMessages(query, conversation_history)

\* `messages = [...]` (lines 141-144): a new list in a local of the call; `previous`,
\* the list the call before ended with, is not reachable from it.
NewTranscript(previous, query, conversation_history) ==
    InitialMessages(query, conversation_history)

\* Faulty variant: set_model leaves the active model as it is.
SetModelIgnored(current, model) == current

\* set_model(model), line 111: the value of self.current_model afterwards.
SetModelTo(current, model) == model

\* Request parameters: base_params plus messages, model and, when tools are
\* attached, the "tools" and "tool_choice" keys.
Params(msgs, model, with_tools) ==
    [temperature |-> 0, max_tokens |-> 800, messages |-> msgs, model |-> model,
     tools |-> with_tools, tool_choice |-> IF with_tools THEN Some("auto") ELSE None]

\* api_params of generate_response: `if tools:` attaches them.
InitialParams(msgs, model, tools_given) == Params(msgs, model, tools_given)

\* Faulty variant: tool definitions stay attached in the last round too.
ShouldIncludeToolsAlways(round) == round <= MAX_TOOL_ROUNDS

\* should_include_tools of _handle_tool_execution
ShouldIncludeTools(round) == round < MAX_TOOL_ROUNDS

\* Faulty variant: the follow-up request is built from the transcript base_params holds.
BuildRoundParamsStale(base_params, msgs, include_tools) ==
    Params(base_params.messages, base_params.model, include_tools /\ base_params.tools)

\* _build_round_params(base_params, messages, include_tools)
BuildRoundParams(base_params, msgs, include_tools) ==
    Params(msgs, base_params.model, include_tools /\ base_params.tools)

\* Faulty variant: the follow-up chain starts at the model the generator used last.
FollowupPrimaryLastUsed(base_params, last_used) == last_used

\* The primary_model argument of _make_api_call_with_fallback: base_params["model"]
\* (line 249), a local of the call; self.last_model_used is not read.
FollowupPrimary(base_params, last_used) == base_params.model

\* Faulty variant: the loop admits one round more.
LoopGuardInclusive(round) == round <= MAX_TOOL_ROUNDS

\* The `while current_round < self.MAX_TOOL_ROUNDS` test.
LoopGuard(round) == round < MAX_TOOL_ROUNDS

(***************************************************************************)
(* Tool-call arguments as the provider encodes them, and json.loads.       *)
(***************************************************************************)
ArgsQuery == "{\"query\": \"mcp\"}"
ArgsOutline == "{\"course_name\": \"MCP\"}"
ArgsMalformed == "{\"query\": "
ArgsList == "[\"mcp\"]"

\* json.loads(arguments): a mapping ("object"), a JSONDecodeError ("error"),
\* or valid JSON that is no mapping ("other").
JsonLoads(arguments) ==
    CASE arguments = ArgsQuery ->
            [kind |-> "object",
             value |-> [query |-> Some(<<"mcp">>), course_name |-> None,
                        lesson_number |-> None]]
      [] arguments = ArgsOutline ->
            [kind |-> "object",
             value |-> [query |-> None, course_name |-> Some(CourseMcp),
                        lesson_number |-> None]]
      [] arguments = ArgsList -> [kind |-> "other", value |-> NoKwargs]
      [] OTHER -> [kind |-> "error", value |-> NoKwargs]

\* Faulty variant: json.loads is called without the except clause.
ToolArgsUncaught(arguments) == JsonLoads(arguments)

\* tool_args of _process_tool_round: `except json.JSONDecodeError: tool_args = {}`
ToolArgs(arguments) ==
    LET parsed == JsonLoads(arguments)
    IN IF parsed.kind = "error" THEN [kind |-> "object", value |-> NoKwargs] ELSE parsed

ToolCall(id, name, arguments) == [id |-> id, name |-> name, arguments |-> arguments]

Response(finish_reason, content, tool_calls) ==
    [finish_reason |-> finish_reason, content |-> content, tool_calls |-> tool_calls]
NoResponse == Response("none", None, <<>>)

\* The assistant message _process_tool_round appends for a response.
AssistantMessage(response) ==
    Message("assistant", response.content, response.tool_calls, None)

\* Faulty variant: every tool result is filed under the id of the first call.
ToolMessageFirstId(tool_call, tool_result) ==
    Message("tool", Some(tool_result), <<>>, Some(1))

\* The tool message _process_tool_round appends for one call.
ToolMessage(tool_call, tool_result) ==
    Message("tool", Some(tool_result), <<>>, Some(tool_call.id))

\* Faulty variant: execute_tool is called outside a try, a raising tool leaves the round.
DispatchOutcomeUnguarded(out) ==
    [propagates |-> out.raised, tool_result |-> out.value]

\* What the try/except around tool_manager.execute_tool (lines 299-306) makes of
\* an outcome: the exception is not propagated, its text becomes the tool result.
DispatchOutcome(out) ==
    [propagates |-> FALSE,
     tool_result |-> IF out.raised THEN <<"Error executing tool: ">> \o out.value
                     ELSE out.value]

\* One iteration of `for tool_call in tool_calls` (lines 291-306): whether
\* execute_tool is called, with what, what it did, and the outcome of the iteration.
\* A JSONDecodeError that json.loads raises past its except clause leaves the
\* iteration; `**tool_args` on a value that is no mapping raises inside the try.
Dispatch(reg, srcs, tool_call, env) ==
    LET args == ToolArgs(tool_call.arguments)
    IN IF args.kind = "error"
       THEN [called |-> FALSE, kwargs |-> NoKwargs, raised |-> TRUE, srcs |-> srcs,
             outcome |-> [propagates |-> TRUE, tool_result |-> <<"JSONDecodeError">>]]
       ELSE IF args.kind = "other"
       THEN [called |-> FALSE, kwargs |-> NoKwargs, raised |-> TRUE, srcs |-> srcs,
             outcome |-> DispatchOutcome(
                 [raised |-> TRUE,
                  value |-> <<"argument after ** must be a mapping">>])]
       ELSE LET out == ExecuteTool(reg, srcs, tool_call.name, args.value, env)
            IN [called |-> TRUE, kwargs |-> args.value, raised |-> out.raised,
                srcs |-> out.srcs, outcome |-> DispatchOutcome(out)]

(***************************************************************************)
(* What generate_response() gives its caller.                              *)
(***************************************************************************)
NoResult == [kind |-> "none", value |-> <<>>]
Returned(text) == [kind |-> "returned", value |-> text]
Raised(text) == [kind |-> "raised", value |-> text]

\* Faulty variant: the text is dropped, the caller gets "".
ResponseTextDropped(response) == <<>>

\* `return response.choices[0].message.content or ""`
ResponseText(response) == OrEmpty(response.content)

\* Faulty variant: the registry argument is not looked at.
NeedsToolExecutionAnyRegistry(response, manager) ==
    response.finish_reason = "tool_calls"

\* Line 170: `response.choices[0].finish_reason == "tool_calls" and tool_manager`
NeedsToolExecution(response, manager) ==
    response.finish_reason = "tool_calls" /\ manager

\* Faulty variant: a response without tool calls is processed as a round.
NoToolCallsNever(response) == FALSE

\* Line 224: `if not tool_calls`
NoToolCalls(response) == Len(response.tool_calls) = 0

\* Faulty variant: the last failure of the chain is re-raised to the caller.
OnChainExhaustedReraises(e) == Raised(e)

\* generate_response, lines 176-190: every model of the chain failed.
OnChainExhausted(e) == Returned(InitialErrorMessage(e))

\* Faulty variant: a failed round gives the caller an empty string.
OnRoundFailureEmpty(e) == Returned(<<>>)

\* _handle_tool_execution, lines 251-253: the follow-up call failed on every model.
OnRoundFailure(e) == Returned(HandleApiError(e))

\* Faulty variant: the follow-up call is not guarded, its failure reaches generate_response.
RoundNeverCatches(e) == FALSE

\* Whether the try of _handle_tool_execution (lines 246-253) catches what
\* _make_api_call_with_fallback raises: `except Exception` catches every failure.
RoundCatches(e) == TRUE

(***************************************************************************)
(* The environment: what the provider may answer and what the store may    *)
(* give.                                                                   *)
(***************************************************************************)
\* The (name, arguments) pairs the provider requests.
ProviderCalls ==
    { <<SearchName, ArgsQuery>>, <<SearchName, ArgsMalformed>>, <<UnknownName, ArgsQuery>> }

\* What store.search() gives a search the provider requested.
SearchOutcomes == { ResultsHit, ResultsRaise }

\* The failures an upstream attempt may raise with.
UpstreamErrors == ErrorDescriptions

\* The (conversation_history, tools, tool_manager) arguments of a call:
\* <<history, whether tools were passed, whether a registry was passed>>.
GenerateInputs ==
    { <<None, TRUE, TRUE>>, <<Some(History), TRUE, TRUE>>, <<None, FALSE, TRUE>>,
      <<None, TRUE, FALSE>>, <<Some(History), FALSE, FALSE>> }

\* Tool calls requested by the successful responses logged so far.
RECURSIVE RequestedCalls(_)
RequestedCalls(log) ==
    IF Len(log) = 0 THEN 0
    ELSE Len(Head(log).response.tool_calls) + RequestedCalls(Tail(log))

\* The tool_calls lists a response may carry when `used` calls were requested before;
\* call ids are unique within one generate_response().
ToolCallLists(used) ==
    UNION { { [i \in 1..n |-> ToolCall(used + i, pick[i][1], pick[i][2])] :
                pick \in [1..n -> ProviderCalls] } :
            n \in 0..(MaxToolCalls - used) }

\* Text of the k-th successful response.
AnswerText(k) == <<"answer ", ToString(k)>>

Successes(log) == Len(SelectSeq(log, LAMBDA c : c.ok))

\* The content of the k-th response (upstream contract: finished text, or a
\* tool-call termination carrying requests and no text; it may also carry neither).
Contents(tool_calls, k) ==
    IF Len(tool_calls) > 0 THEN {None} ELSE {None, Some(AnswerText(k))}

\* Responses to the initial request: finish_reason and tool_calls vary independently.
InitialResponses ==
    UNION { { Response(fr, content, tcs) :
                fr \in {"stop", "tool_calls"}, content \in Contents(tcs, 1) } :
            tcs \in ToolCallLists(0) }

\* Responses to a follow-up request (finish_reason is not read there).
FollowupResponses(log) ==
    UNION { { Response(IF Len(tcs) > 0 THEN "tool_calls" ELSE "stop", content, tcs) :
                content \in Contents(tcs, Successes(log) + 1) } :
            tcs \in ToolCallLists(RequestedCalls(log)) }

\* What the store may give one dispatch: the search outcomes matter only when the
\* call reaches store.search().
Envs(reg, tool_call) ==
    LET args == ToolArgs(tool_call.arguments)
    IN IF /\ args.kind = "object"
          /\ IsRegistered(reg, tool_call.name)
          /\ ToolOf(reg, tool_call.name) \in SearchTools
          /\ ~IsNone(args.value.query)
       THEN { Env(r, OutlineFound) : r \in SearchOutcomes }
       ELSE { Env(ResultsEmpty, OutlineFound) }

UpstreamCall(params, ok, response) ==
    [model |-> params.model, messages |-> params.messages, tools |-> params.tools,
     tool_choice |-> params.tool_choice, ok |-> ok, response |-> response]

\* One tool_manager.execute_tool(name, **kwargs) as the registry saw it: the store's
\* answer, whether the tool raised, and last_sources before and after.
ExecutedCall(id, name, kwargs, env, raised, before, after) ==
    [id |-> id, name |-> name, kwargs |-> kwargs, results |-> env.results,
     raised |-> raised, before |-> before, after |-> after]

(***************************************************************************)
(* Initial state: the generator and the registry as RAGSystem builds them  *)
(* (the default model heads the fallback list, config.py), no call in      *)
(* progress.                                                               *)
(***************************************************************************)
Init ==
    /\ current_model = "A"
    /\ fallback_models = <<"A", "B", "C">>
    /\ last_model_used = "A"
    /\ tools = RegisterTool(RegisterTool(<<>>, "search1"), "outline1")
    /\ registrations = <<"search1", "outline1">>
    /\ last_sources = [t \in SearchTools |-> <<>>]
    /\ pc = "idle"
    /\ tools_arg = FALSE
    /\ tool_manager = FALSE
    /\ messages = <<>>
    /\ api_params = Params(<<>>, "A", FALSE)
    /\ next_params = Params(<<>>, "A", FALSE)
    /\ models_to_try = <<>>
    /\ model_index = 1
    /\ fb_models_to_try = <<>>
    /\ fb_model_index = 1
    /\ current_round = 0
    /\ current_response = NoResponse
    /\ tool_index = 1
    /\ error_msg = None
    /\ result = NoResult
    /\ upstream = <<>>
    /\ executed = <<>>

(***************************************************************************)
(* generate_response(query, conversation_history, tools, tool_manager)     *)
(***************************************************************************)
registry_vars == << tools, last_sources >>
config_vars == << current_model, fallback_models >>
input_vars == << tools_arg, tool_manager >>

\* Lines 134-159: transcript, parameters and fallback chain of a new call.
Generate ==
    /\ pc = "idle"
    /\ \E input \in GenerateInputs :
        /\ tools_arg' = input[2]
        /\ tool_manager' = input[3]
        /\ messages' = InitialMessages(Query, input[1])
        /\ api_params' = InitialParams(InitialMessages(Query, input[1]), current_model,
                                       input[2])
    /\ models_to_try' = ModelsToTry(current_model, fallback_models)
    /\ model_index' = 1
    /\ pc' = "initial"
    /\ UNCHANGED << config_vars, registrations, last_model_used, registry_vars, next_params,
                    fb_models_to_try, fb_model_index, current_round, current_response,
                    tool_index, error_msg, result, upstream, executed >>

\* The except branch of generate_response (lines 176-190) for the exception `e`:
\* the next model when one is left, else the user-facing message.
OuterExcept(e) ==
    IF model_index < Len(models_to_try)
    THEN /\ model_index' = model_index + 1
         /\ pc' = "initial"
         /\ UNCHANGED << error_msg, result >>
    ELSE /\ error_msg' = Some(e)
         /\ result' = OnChainExhausted(e)
         /\ pc' = "done"
         /\ UNCHANGED model_index

\* Lines 161-164 and 176-190: the attempt on models_to_try[model_index] raises.
InitialAttemptFails ==
    /\ pc = "initial"
    /\ \E e \in UpstreamErrors :
        LET params == [api_params EXCEPT !.model = models_to_try[model_index]]
        IN /\ api_params' = params
           /\ upstream' = Append(upstream, UpstreamCall(params, FALSE, NoResponse))
           /\ OuterExcept(e)
    /\ UNCHANGED << config_vars, registrations, last_model_used, registry_vars, input_vars, messages,
                    next_params, models_to_try, fb_models_to_try, fb_model_index,
                    current_round, current_response, tool_index, executed >>

\* Lines 161-174: the attempt on models_to_try[model_index] succeeds.
InitialAttemptSucceeds ==
    /\ pc = "initial"
    /\ \E response \in InitialResponses :
        LET params == [api_params EXCEPT !.model = models_to_try[model_index]]
        IN /\ api_params' = params
           /\ upstream' = Append(upstream, UpstreamCall(params, TRUE, response))
           /\ last_model_used' = params.model
           /\ current_response' = response
           /\ IF NeedsToolExecution(response, tool_manager)
              THEN /\ current_round' = 0
                   /\ pc' = "loop"
                   /\ UNCHANGED result
              ELSE /\ result' = Returned(ResponseText(response))
                   /\ pc' = "done"
                   /\ UNCHANGED current_round
    /\ UNCHANGED << config_vars, registrations, registry_vars, input_vars, messages, next_params,
                    models_to_try, model_index, fb_models_to_try, fb_model_index,
                    tool_index, error_msg, executed >>

(***************************************************************************)
(* _handle_tool_execution(initial_response, messages, base_params, ...)    *)
(***************************************************************************)
\* Lines 218-226 and the head of _process_tool_round (lines 270-288).
RoundStart ==
    /\ pc = "loop"
    /\ LoopGuard(current_round)
    /\ current_round' = current_round + 1
    /\ IF NoToolCalls(current_response)
       THEN /\ result' = Returned(ResponseText(current_response))
            /\ pc' = "done"
            /\ UNCHANGED << messages, tool_index >>
       ELSE /\ messages' = Append(messages, AssistantMessage(current_response))
            /\ tool_index' = 1
            /\ pc' = "dispatch"
            /\ UNCHANGED result
    /\ UNCHANGED << config_vars, registrations, last_model_used, registry_vars, input_vars, api_params,
                    next_params, models_to_try, model_index, fb_models_to_try,
                    fb_model_index, current_response, error_msg, upstream, executed >>

\* Lines 255-256: the loop ends with the rounds used up.
LoopExit ==
    /\ pc = "loop"
    /\ ~LoopGuard(current_round)
    /\ result' = Returned(ResponseText(current_response))
    /\ pc' = "done"
    /\ UNCHANGED << config_vars, registrations, last_model_used, registry_vars, input_vars, messages,
                    api_params, next_params, models_to_try, model_index, fb_models_to_try,
                    fb_model_index, current_round, current_response, tool_index,
                    error_msg, upstream, executed >>

\* Lines 290-313: one iteration of the loop over the requested tool calls.  An
\* exception that left the iteration would leave _handle_tool_execution too and
\* reach the except branch of generate_response.
DispatchTool ==
    /\ pc = "dispatch"
    /\ tool_index <= Len(current_response.tool_calls)
    /\ LET tool_call == current_response.tool_calls[tool_index]
       IN \E env \in Envs(tools, tool_call) :
            LET d == Dispatch(tools, last_sources, tool_call, env)
            IN /\ executed' = IF d.called
                              THEN Append(executed,
                                          ExecutedCall(tool_call.id, tool_call.name,
                                                       d.kwargs, env, d.raised,
                                                       last_sources, d.srcs))
                              ELSE executed
               /\ last_sources' = d.srcs
               /\ IF d.outcome.propagates
                  THEN /\ OuterExcept(d.outcome.tool_result)
                       /\ UNCHANGED << messages, tool_index >>
                  ELSE /\ messages' = Append(messages,
                                             ToolMessage(tool_call, d.outcome.tool_result))
                       /\ tool_index' = tool_index + 1
                       /\ UNCHANGED << pc, model_index, error_msg, result >>
    /\ UNCHANGED << config_vars, registrations, last_model_used, tools, input_vars, api_params,
                    next_params, models_to_try, fb_models_to_try, fb_model_index,
                    current_round, current_response, upstream >>

\* Lines 235-250 and 358: the parameters and the fallback chain of the follow-up call.
BuildFollowup ==
    /\ pc = "dispatch"
    /\ tool_index > Len(current_response.tool_calls)
    /\ next_params' = BuildRoundParams(api_params, messages,
                                       ShouldIncludeTools(current_round))
    /\ fb_models_to_try' = ModelsToTry(FollowupPrimary(api_params, last_model_used),
                                       fallback_models)
    /\ fb_model_index' = 1
    /\ pc' = "followup"
    /\ UNCHANGED << config_vars, registrations, last_model_used, registry_vars, input_vars, messages,
                    api_params, models_to_try, model_index, current_round,
                    current_response, tool_index, error_msg, result, upstream, executed >>

\* Lines 360-373 and 251-253: the attempt on fb_models_to_try[fb_model_index] raises.
FollowupAttemptFails ==
    /\ pc = "followup"
    /\ \E e \in UpstreamErrors :
        LET params == [next_params EXCEPT !.model = fb_models_to_try[fb_model_index]]
        IN /\ next_params' = params
           /\ upstream' = Append(upstream, UpstreamCall(params, FALSE, NoResponse))
           /\ IF fb_model_index < Len(fb_models_to_try)
              THEN /\ fb_model_index' = fb_model_index + 1
                   /\ UNCHANGED << pc, error_msg, result, model_index >>
              ELSE IF RoundCatches(e)
              THEN /\ error_msg' = Some(e)
                   /\ result' = OnRoundFailure(e)
                   /\ pc' = "done"
                   /\ UNCHANGED << fb_model_index, model_index >>
              ELSE /\ OuterExcept(e)
                   /\ UNCHANGED fb_model_index
    /\ UNCHANGED << config_vars, registrations, last_model_used, registry_vars, input_vars, messages,
                    api_params, models_to_try, fb_models_to_try,
                    current_round, current_response, tool_index, executed >>

\* Lines 360-365 and 247: the attempt on fb_models_to_try[fb_model_index] succeeds.
FollowupAttemptSucceeds ==
    /\ pc = "followup"
    /\ \E response \in FollowupResponses(upstream) :
        LET params == [next_params EXCEPT !.model = fb_models_to_try[fb_model_index]]
        IN /\ next_params' = params
           /\ upstream' = Append(upstream, UpstreamCall(params, TRUE, response))
           /\ last_model_used' = params.model
           /\ current_response' = response
           /\ pc' = "loop"
    /\ UNCHANGED << config_vars, registrations, registry_vars, input_vars, messages, api_params,
                    models_to_try, model_index, fb_models_to_try, fb_model_index,
                    current_round, tool_index, error_msg, result, executed >>

Next ==
    \/ Generate
    \/ InitialAttemptFails
    \/ InitialAttemptSucceeds
    \/ RoundStart
    \/ LoopExit
    \/ DispatchTool
    \/ BuildFollowup
    \/ FollowupAttemptFails
    \/ FollowupAttemptSucceeds

Spec == Init /\ [][Next]_vars

\* The call runs on one thread that is never suspended for good: a statement that
\* can be executed is executed, and an upstream attempt returns or raises (the
\* client has a connection timeout).
SpecLive == Spec /\ WF_vars(Next)

(***************************************************************************)
(* The registry used directly: tool_manager.execute_tool(name, **kwargs)   *)
(* and tool_manager.reset_sources() in any order, as RAGSystem and the     *)
(* tests call them.                                                        *)
(***************************************************************************)
MaxExecs == 3

KwQuery == [query |-> Some(<<"mcp">>), course_name |-> None, lesson_number |-> None]
KwFiltered ==
    [query |-> Some(<<"mcp">>), course_name |-> Some(CourseMcp), lesson_number |-> Some(4)]
KwOutline == [query |-> None, course_name |-> Some(CourseMcp), lesson_number |-> None]

\* The (name, kwargs) pairs execute_tool is called with.
DirectCalls ==
    { <<SearchName, KwQuery>>, <<SearchName, KwFiltered>>, <<SearchName, NoKwargs>>,
      <<OutlineName, KwOutline>>, <<UnknownName, KwQuery>> }

\* What the store may give one direct execution.
DirectEnvs(name, kwargs) ==
    IF name = SearchName /\ ~IsNone(kwargs.query)
    THEN { Env(r, OutlineFound) :
             r \in {ResultsHit, ResultsHitMcp, ResultsEmpty, ResultsError, ResultsRaise} }
    ELSE { Env(ResultsEmpty, OutlineFound) }

generate_vars ==
    << registrations, current_model, fallback_models, last_model_used, tools_arg, tool_manager, messages,
       api_params, next_params, models_to_try, model_index, fb_models_to_try,
       fb_model_index, current_round, current_response, tool_index, error_msg, result,
       upstream >>

ToolsInit ==
    /\ current_model = "A"
    /\ fallback_models = <<"A", "B", "C">>
    /\ last_model_used = "A"
    /\ tools = RegisterTool(RegisterTool(<<>>, "search1"), "outline1")
    /\ registrations = <<"search1", "outline1">>
    /\ last_sources = [t \in SearchTools |-> <<>>]
    /\ pc = "tools"
    /\ tools_arg = FALSE
    /\ tool_manager = FALSE
    /\ messages = <<>>
    /\ api_params = Params(<<>>, "A", FALSE)
    /\ next_params = Params(<<>>, "A", FALSE)
    /\ models_to_try = <<>>
    /\ model_index = 1
    /\ fb_models_to_try = <<>>
    /\ fb_model_index = 1
    /\ current_round = 0
    /\ current_response = NoResponse
    /\ tool_index = 1
    /\ error_msg = None
    /\ result = NoResult
    /\ upstream = <<>>
    /\ executed = <<>>

\* tool_manager.execute_tool(name, **kwargs), lines 234-239.
ExecuteToolCall ==
    /\ pc = "tools"
    /\ Len(executed) < MaxExecs
    /\ \E call \in DirectCalls :
          \E env \in DirectEnvs(call[1], call[2]) :
             LET out == ExecuteTool(tools, last_sources, call[1], call[2], env)
             IN /\ last_sources' = out.srcs
                /\ executed' = Append(executed,
                                      ExecutedCall(Len(executed) + 1, call[1], call[2], env,
                                                   out.raised, last_sources, out.srcs))
    /\ UNCHANGED << generate_vars, tools, pc >>

\* tool_manager.reset_sources(), lines 249-253.
ResetSourcesCall ==
    /\ pc = "tools"
    /\ last_sources' = ResetSources(tools, last_sources)
    /\ UNCHANGED << generate_vars, tools, pc, executed >>

ToolsNext ==
    \/ ExecuteToolCall
    \/ ResetSourcesCall

SpecTools == ToolsInit /\ [][ToolsNext]_vars

(***************************************************************************)
(* The fallback chains of a generator built with any model and any         *)
(* fallback list (AIGenerator(api_key, base_url, model, fallback_models)), *)
(* after any set_model(): the chain of the initial request, then the chain *)
(* of a follow-up request for each model that may have served it.          *)
(***************************************************************************)
MaxFallbacks == 3

\* The model identifiers a generator may be given; "D" is in no fallback list.
ConfiguredModels == Models \cup {"D"}

\* The fallback lists a generator may be given.
FallbackLists == UNION { [1..n -> Models] : n \in 0..MaxFallbacks }

ChainInit ==
    /\ current_model \in ConfiguredModels
    /\ fallback_models \in FallbackLists
    /\ last_model_used = current_model
    /\ tools = RegisterTool(RegisterTool(<<>>, "search1"), "outline1")
    /\ registrations = <<"search1", "outline1">>
    /\ last_sources = [t \in SearchTools |-> <<>>]
    /\ pc = "config"
    /\ tools_arg = FALSE
    /\ tool_manager = FALSE
    /\ messages = <<>>
    /\ api_params = Params(<<>>, current_model, FALSE)
    /\ next_params = Params(<<>>, current_model, FALSE)
    /\ models_to_try = <<>>
    /\ model_index = 1
    /\ fb_models_to_try = <<>>
    /\ fb_model_index = 1
    /\ current_round = 0
    /\ current_response = NoResponse
    /\ tool_index = 1
    /\ error_msg = None
    /\ result = NoResult
    /\ upstream = <<>>
    /\ executed = <<>>

chain_frame ==
    << last_model_used, tools, registrations, last_sources, tools_arg, tool_manager, messages,
       next_params, current_round, current_response, tool_index, error_msg, result,
       upstream, executed >>

\* set_model(model), lines 109-111.
SetModel ==
    /\ pc = "config"
    /\ \E model \in ConfiguredModels :
          /\ model # current_model
          /\ current_model' = model
    /\ UNCHANGED << chain_frame, fallback_models, pc, api_params, models_to_try,
                    model_index, fb_models_to_try, fb_model_index >>

\* Line 159: the chain of the initial request.
BuildInitialChain ==
    /\ pc = "config"
    /\ models_to_try' = ModelsToTry(current_model, fallback_models)
    /\ model_index' = 1
    /\ pc' = "chain"
    /\ UNCHANGED << chain_frame, current_model, fallback_models, api_params,
                    fb_models_to_try, fb_model_index >>

\* Lines 161-171 and 358: a model of the chain serves the initial request, and the
\* chain of the follow-up request starts from it.
BuildFollowupChain ==
    /\ pc = "chain"
    /\ \E i \in 1..Len(models_to_try) :
          /\ model_index' = i
          /\ api_params' = [api_params EXCEPT !.model = models_to_try[i]]
          /\ fb_models_to_try' = ModelsToTry(models_to_try[i], fallback_models)
    /\ fb_model_index' = 1
    /\ pc' = "fbchain"
    /\ UNCHANGED << chain_frame, current_model, fallback_models, models_to_try >>

ChainNext ==
    \/ SetModel
    \/ BuildInitialChain
    \/ BuildFollowupChain

SpecChain == ChainInit /\ [][ChainNext]_vars

(***************************************************************************)
(* A registry built and used from scratch: register_tool(tool),            *)
(* execute_tool(name, **kwargs), get_tool_definitions(),                   *)
(* get_last_sources() and reset_sources() in any order.  `pc` names the    *)
(* call that returned last, `executed` holds that call, `result` what it   *)
(* gave its caller.                                                        *)
(***************************************************************************)
MaxRegistrations == 3

\* The objects that may be handed to register_tool().
AllTools == SearchTools \cup OutlineTools \cup NotesTools \cup NamelessTools

\* The tool objects that have a last_sources attribute.
TrackingTools == SearchTools \cup NotesTools

\* The (name, kwargs) pairs execute_tool is called with on this registry.
RegistryCalls ==
    { <<SearchName, KwQuery>>, <<SearchName, NoKwargs>>, <<OutlineName, KwOutline>>,
      <<NotesName, NoKwargs>>, <<UnknownName, KwQuery>> }

\* What the store may give one execution on this registry.
RegistryEnvs(name, kwargs) ==
    IF name = SearchName /\ ~IsNone(kwargs.query)
    THEN { Env(r, OutlineFound) : r \in {ResultsHit, ResultsEmpty, ResultsRaise} }
    ELSE { Env(ResultsEmpty, OutlineFound) }

RegistryPcs == {"registry", "registered", "executed", "definitions", "sources", "reset"}

\* One call on the registry: the operation, its argument (a tool object or a tool
\* name), the keyword arguments and the store's answer of an execution, the tools
\* whose execute() was entered, and the registry and the citation lists before it.
RegistryCall(op, arg, kwargs, results, ran, reg, srcs) ==
    [op |-> op, arg |-> arg, kwargs |-> kwargs, results |-> results, ran |-> ran,
     tools |-> reg, last_sources |-> srcs]

RegistryInit ==
    /\ current_model = "A"
    /\ fallback_models = <<"A", "B", "C">>
    /\ last_model_used = "A"
    /\ tools = <<>>
    /\ registrations = <<>>
    /\ last_sources = [t \in TrackingTools |-> <<>>]
    /\ pc = "registry"
    /\ tools_arg = FALSE
    /\ tool_manager = FALSE
    /\ messages = <<>>
    /\ api_params = Params(<<>>, "A", FALSE)
    /\ next_params = Params(<<>>, "A", FALSE)
    /\ models_to_try = <<>>
    /\ model_index = 1
    /\ fb_models_to_try = <<>>
    /\ fb_model_index = 1
    /\ current_round = 0
    /\ current_response = NoResponse
    /\ tool_index = 1
    /\ error_msg = None
    /\ result = NoResult
    /\ upstream = <<>>
    /\ executed = <<>>

registry_frame ==
    << current_model, fallback_models, last_model_used, tools_arg, tool_manager, messages,
       api_params, next_params, models_to_try, model_index, fb_models_to_try,
       fb_model_index, current_round, current_response, tool_index, error_msg,
       upstream >>

\* register_tool(tool), lines 221-228.
RegisterToolCall ==
    /\ pc \in RegistryPcs
    /\ Len(registrations) < MaxRegistrations
    /\ \E tool \in AllTools :
          /\ tools' = RegisterTool(tools, tool)
          /\ registrations' = IF RegisterRaises(tool) THEN registrations
                              ELSE Append(registrations, tool)
          /\ result' = IF RegisterRaises(tool)
                       THEN Raised(<<"Tool must have a 'name' in its definition">>)
                       ELSE Returned(None)
          /\ executed' = << RegistryCall("register", tool, NoKwargs, ResultsEmpty, <<>>,
                                         tools, last_sources) >>
    /\ pc' = "registered"
    /\ UNCHANGED << registry_frame, last_sources >>

\* execute_tool(tool_name, **kwargs), lines 234-239.
RegistryExecuteCall ==
    /\ pc \in RegistryPcs
    /\ \E call \in RegistryCalls :
          \E env \in RegistryEnvs(call[1], call[2]) :
             LET out == ExecuteTool(tools, last_sources, call[1], call[2], env)
             IN /\ last_sources' = out.srcs
                /\ result' = IF out.raised THEN Raised(out.value) ELSE Returned(out.value)
                /\ executed' = << RegistryCall("execute", call[1], call[2], env.results,
                                               out.ran, tools, last_sources) >>
    /\ pc' = "executed"
    /\ UNCHANGED << registry_frame, tools, registrations >>

\* get_tool_definitions(), lines 230-232.
GetToolDefinitionsCall ==
    /\ pc \in RegistryPcs
    /\ result' = Returned(GetToolDefinitions(tools))
    /\ executed' = << RegistryCall("definitions", "", NoKwargs, ResultsEmpty, <<>>,
                                   tools, last_sources) >>
    /\ pc' = "definitions"
    /\ UNCHANGED << registry_frame, tools, registrations, last_sources >>

\* get_last_sources(), lines 241-247.
GetLastSourcesCall ==
    /\ pc \in RegistryPcs
    /\ result' = Returned(GetLastSources(tools, last_sources))
    /\ executed' = << RegistryCall("sources", "", NoKwargs, ResultsEmpty, <<>>,
                                   tools, last_sources) >>
    /\ pc' = "sources"
    /\ UNCHANGED << registry_frame, tools, registrations, last_sources >>

\* reset_sources(), lines 249-253.
RegistryResetCall ==
    /\ pc \in RegistryPcs
    /\ last_sources' = ResetSources(tools, last_sources)
    /\ result' = Returned(None)
    /\ executed' = << RegistryCall("reset", "", NoKwargs, ResultsEmpty, <<>>,
                                   tools, last_sources) >>
    /\ pc' = "reset"
    /\ UNCHANGED << registry_frame, tools, registrations >>

RegistryNext ==
    \/ RegisterToolCall
    \/ RegistryExecuteCall
    \/ GetToolDefinitionsCall
    \/ GetLastSourcesCall
    \/ RegistryResetCall

SpecRegistry == RegistryInit /\ [][RegistryNext]_vars

(***************************************************************************)
(* The tools executed directly: CourseSearchTool.execute(...) and          *)
(* CourseOutlineTool.execute(...) on one instance each, for the arguments  *)
(* and the store answers below.                                            *)
(***************************************************************************)
MaxRuns == 2

\* course_name and lesson_number arguments of the search tool.
CourseFilters == { None, Some(<<>>), Some(CourseMcp) }
LessonFilters == { None, Some(0), Some(4) }
SearchKwargs ==
    { [query |-> Some(<<"mcp">>), course_name |-> c, lesson_number |-> l] :
        c \in CourseFilters, l \in LessonFilters }

\* More answers of store.search(): two lessons of one course, the same in the
\* opposite order, lesson 0, metadata without a title, more documents than
\* metadata, an error that comes with documents, an empty error text.
ResultsTwoLessons ==
    SearchResults(<<DocA, DocB>>,
                  <<Meta(Some(CourseX), Some(1)), Meta(Some(CourseX), Some(2))>>, None)
ResultsDescending ==
    SearchResults(<<DocB, DocA>>,
                  <<Meta(Some(CourseX), Some(2)), Meta(Some(CourseX), Some(1))>>, None)
ResultsLessonZero == SearchResults(<<DocA>>, <<Meta(Some(CourseX), Some(0))>>, None)
ResultsNoTitle == SearchResults(<<DocA>>, <<Meta(None, Some(3))>>, None)
ResultsUneven == SearchResults(<<DocA, DocB>>, <<Meta(Some(CourseMcp), None)>>, None)
ResultsErrorWithDocs ==
    SearchResults(<<DocA>>, <<Meta(Some(CourseX), Some(1))>>,
                  Some(<<"Search error: partial failure">>))
ResultsBlankError == SearchResults(<<>>, <<>>, Some(<<>>))

ResultsWithDocuments ==
    { ResultsHit, ResultsHitMcp, ResultsTwoLessons, ResultsDescending,
      ResultsLessonZero, ResultsNoTitle, ResultsUneven }

\* The (kwargs, store answer) pairs of the search executions: every filter
\* combination meets the empty answer, two of them meet the other answers.
SearchRuns ==
    { <<kw, ResultsEmpty>> : kw \in SearchKwargs }
    \cup { <<KwFiltered, ResultsBlankError>> }
    \cup { <<kw, r>> : kw \in {KwQuery, KwFiltered},
                       r \in ResultsWithDocuments
                          \cup {ResultsError, ResultsErrorWithDocs, ResultsRaise} }

\* What the store may give the outline tool.
OutlineUnresolved == OutlineEnv(None, FALSE, None)
OutlineResolvedBlank == OutlineEnv(Some(<<>>), FALSE, None)
OutlineLookupFails == OutlineEnv(Some(CourseMcp), TRUE, None)
OutlineNoResults == OutlineEnv(Some(CourseMcp), FALSE, None)
OutlineNoRecord == OutlineEnv(Some(CourseMcp), FALSE, Some(<<>>))
OutlineNullMetadata == OutlineEnv(Some(CourseMcp), FALSE, Some(<<None>>))
OutlineMalformed ==
    OutlineEnv(Some(CourseMcp), FALSE,
               Some(<<Some(McpMetadata(Some(LessonsJson(FALSE, <<>>))))>>))
OutlineScalar ==
    OutlineEnv(Some(CourseMcp), FALSE, Some(<<Some(McpMetadata(Some(LessonsJsonScalar)))>>))
OutlineNoLessons == OutlineEnv(Some(CourseMcp), FALSE, Some(<<Some(McpMetadata(None))>>))
\* A lesson serialized with "lesson_link": null, between two lessons that have a link.
OutlineNullLink ==
    OutlineEnv(Some(CourseMcp), FALSE,
        Some(<< Some(McpMetadata(
               Some(LessonsJson(TRUE,
                   << Lesson(Some(2), Some(<<"Servers">>), Some(<<"https://mcp.example/2">>)),
                      Lesson(Some(1), Some(<<"Tools">>), Some(JsonNull)),
                      Lesson(Some(3), Some(<<"Clients">>), Some(<<"https://mcp.example/3">>))
                   >>)))) >>))

OutlineEnvs ==
    { OutlineUnresolved, OutlineResolvedBlank, OutlineLookupFails, OutlineNoResults,
      OutlineNoRecord, OutlineNullMetadata, OutlineMalformed, OutlineScalar,
      OutlineNoLessons, OutlineNullLink, OutlineFound }

KwOutlineZzzz == [query |-> None, course_name |-> Some(<<"Zzzz">>), lesson_number |-> None]

\* The (kwargs, store answer) pairs of the outline executions.
OutlineRuns ==
    { <<kw, o>> : kw \in {KwOutline, KwOutlineZzzz}, o \in OutlineEnvs }
    \cup { <<NoKwargs, OutlineFound>> }

\* One execution as its caller and the store saw it.
ToolRun(tool, kwargs, env, out, before, after) ==
    [tool |-> tool, kwargs |-> kwargs, results |-> env.results, outline |-> env.outline,
     raised |-> out.raised, value |-> out.value, lookups |-> out.lookups,
     before |-> before, after |-> after]

RunsInit ==
    /\ current_model = "A"
    /\ fallback_models = <<"A", "B", "C">>
    /\ last_model_used = "A"
    /\ tools = RegisterTool(RegisterTool(<<>>, "search1"), "outline1")
    /\ registrations = <<"search1", "outline1">>
    /\ last_sources = [t \in SearchTools |-> <<>>]
    /\ pc = "runs"
    /\ tools_arg = FALSE
    /\ tool_manager = FALSE
    /\ messages = <<>>
    /\ api_params = Params(<<>>, "A", FALSE)
    /\ next_params = Params(<<>>, "A", FALSE)
    /\ models_to_try = <<>>
    /\ model_index = 1
    /\ fb_models_to_try = <<>>
    /\ fb_model_index = 1
    /\ current_round = 0
    /\ current_response = NoResponse
    /\ tool_index = 1
    /\ error_msg = None
    /\ result = NoResult
    /\ upstream = <<>>
    /\ executed = <<>>

runs_frame ==
    << registrations, current_model, fallback_models, last_model_used, tools_arg,
       tool_manager, messages, api_params, next_params, models_to_try, model_index,
       fb_models_to_try, fb_model_index, current_round, current_response, tool_index,
       error_msg, upstream, tools, pc >>

\* CourseSearchTool.execute(query, course_name, lesson_number), lines 56-93.
SearchToolRun ==
    /\ pc = "runs"
    /\ Len(executed) < MaxRuns
    /\ \E run \in SearchRuns :
          LET out == SearchExecute(run[1], run[2], last_sources["search1"])
          IN /\ last_sources' = [last_sources EXCEPT !["search1"] = out.sources]
             /\ result' = IF out.raised THEN Raised(out.value) ELSE Returned(out.value)
             /\ executed' = Append(executed,
                                   ToolRun("search1", run[1], Env(run[2], OutlineFound), out,
                                           last_sources["search1"], out.sources))
    /\ UNCHANGED runs_frame

\* CourseOutlineTool.execute(course_name), lines 157-212.
OutlineToolRun ==
    /\ pc = "runs"
    /\ Len(executed) < MaxRuns
    /\ \E run \in OutlineRuns :
          LET out == OutlineExecute(run[1], run[2])
          IN /\ result' = IF out.raised THEN Raised(out.value) ELSE Returned(out.value)
             /\ executed' = Append(executed,
                                   ToolRun("outline1", run[1], Env(ResultsEmpty, run[2]), out,
                                           <<>>, <<>>))
    /\ UNCHANGED << runs_frame, last_sources >>

RunsNext ==
    \/ SearchToolRun
    \/ OutlineToolRun

SpecRuns == RunsInit /\ [][RunsNext]_vars

(***************************************************************************)
(* Two queries on one AIGenerator and one ToolManager, their steps         *)
(* interleaved.  Each query's host calls generate_response(), then         *)
(* tool_manager.get_last_sources(), then tool_manager.reset_sources().     *)
(* The locals of generate_response are kept per query (a function over     *)
(* Queries); the fields of the generator, the registry and the tools are   *)
(* shared.  A step is the access to a shared field or an upstream call,    *)
(* together with the statements on locals that follow it.  `executed` is   *)
(* the log of the calls the registry received, from either query.          *)
(***************************************************************************)
Queries == {"q1", "q2"}

\* Tool calls the provider may request within one query.
MaxQueryCalls == 1
\* Upstream attempts that may fail, over the two queries together.
MaxQueryFailures == 1

QueryText(q) == <<"question of ", q>>

\* What store.search() gives the search of a query.
QueryResults(q) == IF q = "q1" THEN {ResultsHit, ResultsEmpty} ELSE {ResultsHitMcp, ResultsEmpty}

Failures(log) == Len(SelectSeq(log, LAMBDA c : ~c.ok))
\* The failed attempts of all queries so far.
RECURSIVE AllFailures(_, _)
AllFailures(logs, qs) ==
    IF qs = {} THEN 0
    ELSE LET q == CHOOSE x \in qs : TRUE
         IN Failures(logs[q]) + AllFailures(logs, qs \ {q})

\* The responses the provider may give a request of a query whose log is `log`.
QueryResponses(log) ==
    { Response("stop", Some(AnswerText(Successes(log) + 1)), <<>>) }
    \cup (IF RequestedCalls(log) < MaxQueryCalls
          THEN { Response("tool_calls", None,
                          <<ToolCall(RequestedCalls(log) + 1, SearchName, ArgsQuery)>>) }
          ELSE {})

\* One upstream call of a query; last_used is self.last_model_used when it was sent.
QueryCall(params, ok, response, last_used) ==
    [model |-> params.model, messages |-> params.messages, tools |-> params.tools,
     tool_choice |-> params.tool_choice, ok |-> ok, response |-> response,
     last_used |-> last_used]

\* One call the registry received.
RegistryOp(q, op, results, raised, value, before, after) ==
    [query |-> q, op |-> op, results |-> results, raised |-> raised, value |-> value,
     before |-> before, after |-> after]

\* The head of the round loop (lines 218-226 and 270-288) for the response at hand.
RoundEntry(round, response, msgs) ==
    IF ~LoopGuard(round)
    THEN [pc |-> "done", round |-> round, messages |-> msgs,
          result |-> Returned(ResponseText(response))]
    ELSE IF NoToolCalls(response)
    THEN [pc |-> "done", round |-> round + 1, messages |-> msgs,
          result |-> Returned(ResponseText(response))]
    ELSE [pc |-> "dispatch", round |-> round + 1,
          messages |-> Append(msgs, AssistantMessage(response)), result |-> NoResult]

QueriesInit ==
    /\ current_model = "A"
    /\ fallback_models = <<"A", "B", "C">>
    /\ last_model_used = "A"
    /\ tools = RegisterTool(RegisterTool(<<>>, "search1"), "outline1")
    /\ registrations = <<"search1", "outline1">>
    /\ last_sources = [t \in SearchTools |-> <<>>]
    /\ pc = [q \in Queries |-> "idle"]
    /\ tools_arg = [q \in Queries |-> TRUE]
    /\ tool_manager = [q \in Queries |-> TRUE]
    /\ messages = [q \in Queries |-> <<>>]
    /\ api_params = [q \in Queries |-> Params(<<>>, "A", FALSE)]
    /\ next_params = [q \in Queries |-> Params(<<>>, "A", FALSE)]
    /\ models_to_try = [q \in Queries |-> <<>>]
    /\ model_index = [q \in Queries |-> 1]
    /\ fb_models_to_try = [q \in Queries |-> <<>>]
    /\ fb_model_index = [q \in Queries |-> 1]
    /\ current_round = [q \in Queries |-> 0]
    /\ current_response = [q \in Queries |-> NoResponse]
    /\ tool_index = [q \in Queries |-> 1]
    /\ error_msg = [q \in Queries |-> None]
    /\ result = [q \in Queries |-> NoResult]
    /\ upstream = [q \in Queries |-> <<>>]
    /\ executed = <<>>

\* What no step of a query assigns.
queries_frame ==
    << current_model, fallback_models, tools, registrations, tools_arg, tool_manager >>

\* Lines 134-159 for query q.
QGenerate(q) ==
    /\ pc[q] = "idle"
    /\ messages' = [messages EXCEPT ![q] = InitialMessages(QueryText(q), None)]
    /\ api_params' = [api_params EXCEPT
                         ![q] = InitialParams(InitialMessages(QueryText(q), None),
                                              current_model, tools_arg[q])]
    /\ models_to_try' = [models_to_try EXCEPT
                            ![q] = ModelsToTry(current_model, fallback_models)]
    /\ model_index' = [model_index EXCEPT ![q] = 1]
    /\ pc' = [pc EXCEPT ![q] = "initial"]
    /\ UNCHANGED << queries_frame, last_model_used, last_sources, next_params,
                    fb_models_to_try, fb_model_index, current_round, current_response,
                    tool_index, error_msg, result, upstream, executed >>

\* The except branch of generate_response (lines 176-190) in query q.
QOuterExcept(q, e) ==
    IF model_index[q] < Len(models_to_try[q])
    THEN /\ model_index' = [model_index EXCEPT ![q] = model_index[q] + 1]
         /\ pc' = [pc EXCEPT ![q] = "initial"]
         /\ UNCHANGED << error_msg, result >>
    ELSE /\ error_msg' = [error_msg EXCEPT ![q] = Some(e)]
         /\ result' = [result EXCEPT ![q] = OnChainExhausted(e)]
         /\ pc' = [pc EXCEPT ![q] = "done"]
         /\ UNCHANGED model_index

\* Lines 161-164 and 176-190 in query q: the attempt raises.
QInitialAttemptFails(q) ==
    /\ pc[q] = "initial"
    /\ AllFailures(upstream, Queries) < MaxQueryFailures
    /\ LET params == [api_params[q] EXCEPT !.model = models_to_try[q][model_index[q]]]
       IN /\ api_params' = [api_params EXCEPT ![q] = params]
          /\ upstream' = [upstream EXCEPT
                             ![q] = Append(upstream[q],
                                           QueryCall(params, FALSE, NoResponse,
                                                     last_model_used))]
          /\ QOuterExcept(q, DescRate)
    /\ UNCHANGED << queries_frame, last_model_used, last_sources, messages, next_params,
                    models_to_try, fb_models_to_try, fb_model_index, current_round,
                    current_response, tool_index, executed >>

\* The round loop is entered, or entered again, in query q.
QEnterRound(q, response, round) ==
    LET entry == RoundEntry(round, response, messages[q])
    IN /\ pc' = [pc EXCEPT ![q] = entry.pc]
       /\ current_round' = [current_round EXCEPT ![q] = entry.round]
       /\ messages' = [messages EXCEPT ![q] = entry.messages]
       /\ tool_index' = [tool_index EXCEPT ![q] = 1]
       /\ result' = [result EXCEPT ![q] = entry.result]

\* Lines 161-174 in query q: the attempt succeeds; self.last_model_used is written.
QInitialAttemptSucceeds(q) ==
    /\ pc[q] = "initial"
    /\ \E response \in QueryResponses(upstream[q]) :
        LET params == [api_params[q] EXCEPT !.model = models_to_try[q][model_index[q]]]
        IN /\ api_params' = [api_params EXCEPT ![q] = params]
           /\ upstream' = [upstream EXCEPT
                              ![q] = Append(upstream[q],
                                            QueryCall(params, TRUE, response,
                                                      last_model_used))]
           /\ last_model_used' = params.model
           /\ current_response' = [current_response EXCEPT ![q] = response]
           /\ IF NeedsToolExecution(response, tool_manager[q])
              THEN QEnterRound(q, response, 0)
              ELSE /\ result' = [result EXCEPT ![q] = Returned(ResponseText(response))]
                   /\ pc' = [pc EXCEPT ![q] = "done"]
                   /\ UNCHANGED << current_round, messages, tool_index >>
    /\ UNCHANGED << queries_frame, last_sources, next_params, models_to_try, model_index,
                    fb_models_to_try, fb_model_index, error_msg, executed >>

\* Lines 290-313 in query q: one tool call is dispatched through the shared registry;
\* after the last one the follow-up request is built (lines 235-250 and 358).
QDispatchTool(q) ==
    /\ pc[q] = "dispatch"
    /\ LET tool_call == current_response[q].tool_calls[tool_index[q]]
       IN \E r \in QueryResults(q) :
            LET d == Dispatch(tools, last_sources, tool_call, Env(r, OutlineFound))
                msgs == Append(messages[q], ToolMessage(tool_call, d.outcome.tool_result))
            IN /\ last_sources' = d.srcs
               /\ executed' = Append(executed,
                                     RegistryOp(q, "execute_tool", r, d.raised,
                                                d.outcome.tool_result, last_sources, d.srcs))
               /\ IF d.outcome.propagates
                  THEN /\ QOuterExcept(q, d.outcome.tool_result)
                       /\ UNCHANGED << messages, tool_index, next_params,
                                       fb_models_to_try, fb_model_index >>
                  ELSE /\ messages' = [messages EXCEPT ![q] = msgs]
                       /\ UNCHANGED << model_index, error_msg, result >>
                       /\ IF tool_index[q] < Len(current_response[q].tool_calls)
                          THEN /\ tool_index' = [tool_index EXCEPT ![q] = tool_index[q] + 1]
                               /\ UNCHANGED << pc, next_params, fb_models_to_try,
                                               fb_model_index >>
                          ELSE /\ next_params' =
                                    [next_params EXCEPT
                                       ![q] = BuildRoundParams(
                                                 api_params[q], msgs,
                                                 ShouldIncludeTools(current_round[q]))]
                               /\ fb_models_to_try' =
                                    [fb_models_to_try EXCEPT
                                       ![q] = ModelsToTry(
                                                 FollowupPrimary(api_params[q],
                                                                 last_model_used),
                                                 fallback_models)]
                               /\ fb_model_index' = [fb_model_index EXCEPT ![q] = 1]
                               /\ pc' = [pc EXCEPT ![q] = "followup"]
                               /\ UNCHANGED tool_index
    /\ UNCHANGED << queries_frame, last_model_used, api_params, models_to_try,
                    current_round, current_response, upstream >>

\* Lines 360-373 and 251-253 in query q: the follow-up attempt raises.
QFollowupAttemptFails(q) ==
    /\ pc[q] = "followup"
    /\ AllFailures(upstream, Queries) < MaxQueryFailures
    /\ LET params == [next_params[q] EXCEPT
                         !.model = fb_models_to_try[q][fb_model_index[q]]]
       IN /\ next_params' = [next_params EXCEPT ![q] = params]
          /\ upstream' = [upstream EXCEPT
                             ![q] = Append(upstream[q],
                                           QueryCall(params, FALSE, NoResponse,
                                                     last_model_used))]
          /\ IF fb_model_index[q] < Len(fb_models_to_try[q])
             THEN /\ fb_model_index' = [fb_model_index EXCEPT ![q] = fb_model_index[q] + 1]
                  /\ UNCHANGED << pc, error_msg, result, model_index >>
             ELSE IF RoundCatches(DescRate)
             THEN /\ error_msg' = [error_msg EXCEPT ![q] = Some(DescRate)]
                  /\ result' = [result EXCEPT ![q] = OnRoundFailure(DescRate)]
                  /\ pc' = [pc EXCEPT ![q] = "done"]
                  /\ UNCHANGED << fb_model_index, model_index >>
             ELSE /\ QOuterExcept(q, DescRate)
                  /\ UNCHANGED fb_model_index
    /\ UNCHANGED << queries_frame, last_model_used, last_sources, messages, api_params,
                    models_to_try, fb_models_to_try, current_round, current_response,
                    tool_index, executed >>

\* Lines 360-365 and 247 in query q: the follow-up attempt succeeds;
\* self.last_model_used is written and the loop goes round.
QFollowupAttemptSucceeds(q) ==
    /\ pc[q] = "followup"
    /\ \E response \in QueryResponses(upstream[q]) :
        LET params == [next_params[q] EXCEPT
                          !.model = fb_models_to_try[q][fb_model_index[q]]]
        IN /\ next_params' = [next_params EXCEPT ![q] = params]
           /\ upstream' = [upstream EXCEPT
                              ![q] = Append(upstream[q],
                                            QueryCall(params, TRUE, response,
                                                      last_model_used))]
           /\ last_model_used' = params.model
           /\ current_response' = [current_response EXCEPT ![q] = response]
           /\ QEnterRound(q, response, current_round[q])
    /\ UNCHANGED << queries_frame, last_sources, api_params, models_to_try, model_index,
                    fb_models_to_try, fb_model_index, error_msg, executed >>

query_locals ==
    << messages, api_params, next_params, models_to_try, model_index, fb_models_to_try,
       fb_model_index, current_round, current_response, tool_index, error_msg, result,
       upstream >>

\* The host of query q reads the citations after its generate_response() returned.
QGetLastSources(q) ==
    /\ pc[q] = "done"
    /\ executed' = Append(executed,
                          RegistryOp(q, "get_last_sources", ResultsEmpty, FALSE,
                                     GetLastSources(tools, last_sources),
                                     last_sources, last_sources))
    /\ pc' = [pc EXCEPT ![q] = "read"]
    /\ UNCHANGED << queries_frame, last_model_used, last_sources, query_locals >>

\* The host of query q resets the citations after reading them.
QResetSources(q) ==
    /\ pc[q] = "read"
    /\ last_sources' = ResetSources(tools, last_sources)
    /\ executed' = Append(executed,
                          RegistryOp(q, "reset_sources", ResultsEmpty, FALSE, <<>>,
                                     last_sources, ResetSources(tools, last_sources)))
    /\ pc' = [pc EXCEPT ![q] = "finished"]
    /\ UNCHANGED << queries_frame, last_model_used, query_locals >>

QueriesNext ==
    \/ \E q \in Queries : QGenerate(q)
    \/ \E q \in Queries : QInitialAttemptFails(q)
    \/ \E q \in Queries : QInitialAttemptSucceeds(q)
    \/ \E q \in Queries : QDispatchTool(q)
    \/ \E q \in Queries : QFollowupAttemptFails(q)
    \/ \E q \in Queries : QFollowupAttemptSucceeds(q)
    \/ \E q \in Queries : QGetLastSources(q)
    \/ \E q \in Queries : QResetSources(q)

SpecQueries == QueriesInit /\ [][QueriesNext]_vars

(***************************************************************************)
(* The two classifications side by side: one final failure description,    *)
(* str(e) of the last attempt of an exhausted chain, is given to the       *)
(* except branch of generate_response (lines 176-190) and to               *)
(* _handle_api_error (lines 389-399).  The descriptions are phrases of up  *)
(* to MaxWords words, so that one description can carry the markers of     *)
(* several categories, in either order and in either case.                 *)
(***************************************************************************)
MaxWords == 2

WordConnect == <<"c", "o", "n", "n", "e", "c", "t">>
WordConnectUpper == <<"C", "O", "N", "N", "E", "C", "T">>
WordSsl == <<"s", "s", "l">>
WordCertificate == <<"C", "e", "r", "t", "i", "f", "i", "c", "a", "t", "e">>
WordTimeout == <<"T", "i", "m", "e", "o", "u", "t">>
WordFailed == <<"f", "a", "i", "l", "e", "d">>

Words == { WordConnect, WordConnectUpper, WordSsl, WordCertificate, WordTimeout, WordFailed }

\* " ".join(words)
RECURSIVE JoinWords(_)
JoinWords(words) ==
    IF Len(words) = 0 THEN <<>>
    ELSE IF Len(words) = 1 THEN words[1]
    ELSE words[1] \o <<" ">> \o JoinWords(Tail(words))

PhraseDescriptions ==
    { JoinWords(phrase) : phrase \in UNION { [1..n -> Words] : n \in 1..MaxWords } }

\* One classification: which path, of what description, with what string.
Classified(path, e, value) == [path |-> path, description |-> e, value |-> value]

ClassifyInit ==
    /\ current_model = "A"
    /\ fallback_models = <<"A", "B", "C">>
    /\ last_model_used = "A"
    /\ tools = RegisterTool(RegisterTool(<<>>, "search1"), "outline1")
    /\ registrations = <<"search1", "outline1">>
    /\ last_sources = [t \in SearchTools |-> <<>>]
    /\ pc = "classify"
    /\ tools_arg = FALSE
    /\ tool_manager = FALSE
    /\ messages = <<>>
    /\ api_params = Params(<<>>, "A", FALSE)
    /\ next_params = Params(<<>>, "A", FALSE)
    /\ models_to_try = <<>>
    /\ model_index = 1
    /\ fb_models_to_try = <<>>
    /\ fb_model_index = 1
    /\ current_round = 0
    /\ current_response = NoResponse
    /\ tool_index = 1
    /\ error_msg \in { Some(e) : e \in PhraseDescriptions }
    /\ result = NoResult
    /\ upstream = <<>>
    /\ executed = <<>>

classify_frame ==
    << current_model, fallback_models, last_model_used, tools, registrations,
       last_sources, pc, tools_arg, tool_manager, messages, api_params, next_params,
       models_to_try, model_index, fb_models_to_try, fb_model_index, current_round,
       current_response, tool_index, error_msg, upstream >>

\* Lines 176-190 with the last model of the chain: the initial request failed on it.
ExhaustInitial ==
    /\ pc = "classify"
    /\ \A i \in 1..Len(executed) : executed[i].path # "initial"
    /\ result' = OnChainExhausted(Get(error_msg))
    /\ executed' = Append(executed,
                          Classified("initial", Get(error_msg),
                                     OnChainExhausted(Get(error_msg)).value))
    /\ UNCHANGED classify_frame

\* Lines 251-253: the follow-up request of a round failed on every model.
ExhaustRound ==
    /\ pc = "classify"
    /\ \A i \in 1..Len(executed) : executed[i].path # "round"
    /\ result' = OnRoundFailure(Get(error_msg))
    /\ executed' = Append(executed,
                          Classified("round", Get(error_msg),
                                     OnRoundFailure(Get(error_msg)).value))
    /\ UNCHANGED classify_frame

ClassifyNext ==
    \/ ExhaustInitial
    \/ ExhaustRound

SpecClassify == ClassifyInit /\ [][ClassifyNext]_vars

(***************************************************************************)
(* One host using one generator and one registry for several queries, one  *)
(* after the other: it may call set_model(m), may call reset_sources(),    *)
(* calls generate_response(query, history, tools, tool_manager) and, when  *)
(* that returned, get_current_model() and get_last_sources().  `executed`  *)
(* is the log of the host's calls and of the tool executions, `upstream`   *)
(* the log of the upstream attempts of all calls, each entry with the      *)
(* number of the generate_response() it belongs to.                        *)
(***************************************************************************)
\* generate_response() calls in one session.
MaxSessions == 2
\* Tool calls the provider may request in one session.
MaxSessionCalls == 3
\* Upstream attempts that may fail in one session.
MaxSessionFailures == 3

\* One entry of the host's log.  `model` is get_current_model() at that moment (for
\* set_model: the argument), `answer` what generate_response() returned.
SessionOp(op, call, model, history, results, answer, value, before, after) ==
    [op |-> op, call |-> call, model |-> model, history |-> history,
     results |-> results, answer |-> answer, value |-> value,
     before |-> before, after |-> after]

\* One upstream attempt of generate_response() number `call`.
SessionCall(call, params, ok, response) ==
    [call |-> call, model |-> params.model, messages |-> params.messages,
     tools |-> params.tools, tool_choice |-> params.tool_choice, ok |-> ok,
     response |-> response]

\* generate_response() calls started so far, and the attempts of the running one.
CallsStarted == Len(SelectSeq(executed, LAMBDA op : op.op = "generate"))
AttemptsOfCall(n) == SelectSeq(upstream, LAMBDA c : c.call = n)

SessionQuery(n) == <<"question ", ToString(n)>>

\* What the provider may answer the running call.
SessionResponses ==
    LET log == AttemptsOfCall(CallsStarted)
    IN { Response("stop", Some(AnswerText(Successes(log) + 1)), <<>>) }
       \cup (IF RequestedCalls(upstream) < MaxSessionCalls
             THEN { Response("tool_calls", None,
                             <<ToolCall(RequestedCalls(log) + 1, SearchName, ArgsQuery)>>) }
             ELSE {})

\* What store.search() may give search `id` of generate_response() number n: the
\* passages differ from one search to the next, or nothing is found.
SessionResults(n, id) ==
    IF (n + id) % 2 = 0 THEN { ResultsHit, ResultsEmpty } ELSE { ResultsHitMcp, ResultsEmpty }

SessionInit ==
    /\ current_model = "A"
    /\ fallback_models = <<"A", "B", "C">>
    /\ last_model_used = "A"
    /\ tools = RegisterTool(RegisterTool(<<>>, "search1"), "outline1")
    /\ registrations = <<"search1", "outline1">>
    /\ last_sources = [t \in SearchTools |-> <<>>]
    /\ pc = "idle"
    /\ tools_arg = TRUE
    /\ tool_manager = TRUE
    /\ messages = <<>>
    /\ api_params = Params(<<>>, "A", FALSE)
    /\ next_params = Params(<<>>, "A", FALSE)
    /\ models_to_try = <<>>
    /\ model_index = 1
    /\ fb_models_to_try = <<>>
    /\ fb_model_index = 1
    /\ current_round = 0
    /\ current_response = NoResponse
    /\ tool_index = 1
    /\ error_msg = None
    /\ result = NoResult
    /\ upstream = <<>>
    /\ executed = <<>>

\* What no step of a session assigns.
session_frame == << fallback_models, tools, registrations, tools_arg, tool_manager >>

\* The locals of generate_response and of its helpers.
session_locals ==
    << messages, api_params, next_params, models_to_try, model_index, fb_models_to_try,
       fb_model_index, current_round, current_response, tool_index, error_msg, result >>

\* The host calls set_model(m) between two queries.
SessionSetModel ==
    /\ pc = "idle"
    /\ CallsStarted < MaxSessions
    /\ Len(executed) > 0 => executed[Len(executed)].op # "set_model"
    /\ \E m \in {"B", "C"} \ {current_model} :
          /\ current_model' = SetModelTo(current_model, m)
          /\ executed' = Append(executed,
                                SessionOp("set_model", CallsStarted, m, None, ResultsEmpty,
                                          <<>>, <<>>, last_sources, last_sources))
    /\ UNCHANGED << session_frame, session_locals, last_model_used, last_sources, pc,
                    upstream >>

\* The host calls reset_sources() right before a query.
SessionResetSources ==
    /\ pc = "idle"
    /\ CallsStarted < MaxSessions
    /\ last_sources' = ResetSources(tools, last_sources)
    /\ executed' = Append(executed,
                          SessionOp("reset_sources", CallsStarted, current_model, None,
                                    ResultsEmpty, <<>>, <<>>, last_sources,
                                    ResetSources(tools, last_sources)))
    /\ pc' = "fresh"
    /\ UNCHANGED << session_frame, session_locals, current_model, last_model_used,
                    upstream >>

\* Lines 134-159 of the next generate_response(); its locals start anew.
SessionGenerate ==
    /\ pc \in {"idle", "fresh"}
    /\ CallsStarted < MaxSessions
    /\ \E history \in {None, Some(History)} :
          LET n == CallsStarted + 1
              msgs == NewTranscript(messages, SessionQuery(n), history)
          IN /\ messages' = msgs
             /\ api_params' = InitialParams(msgs, current_model, tools_arg)
             /\ executed' = Append(executed,
                                   SessionOp("generate", n, current_model, history,
                                             ResultsEmpty, <<>>, <<>>, last_sources,
                                             last_sources))
    /\ models_to_try' = ModelsToTry(current_model, fallback_models)
    /\ model_index' = 1
    /\ next_params' = Params(<<>>, "A", FALSE)
    /\ fb_models_to_try' = <<>>
    /\ fb_model_index' = 1
    /\ current_round' = 0
    /\ current_response' = NoResponse
    /\ tool_index' = 1
    /\ error_msg' = None
    /\ result' = NoResult
    /\ pc' = "initial"
    /\ UNCHANGED << session_frame, current_model, last_model_used, last_sources,
                    upstream >>

\* The except branch of generate_response (lines 176-190).
SessionOuterExcept(e) ==
    IF model_index < Len(models_to_try)
    THEN /\ model_index' = model_index + 1
         /\ pc' = "initial"
         /\ UNCHANGED << error_msg, result >>
    ELSE /\ error_msg' = Some(e)
         /\ result' = OnChainExhausted(e)
         /\ pc' = "done"
         /\ UNCHANGED model_index

\* Lines 161-164 and 176-190: the attempt raises.
SessionInitialFails ==
    /\ pc = "initial"
    /\ Failures(upstream) < MaxSessionFailures
    /\ LET params == [api_params EXCEPT !.model = models_to_try[model_index]]
       IN /\ api_params' = params
          /\ upstream' = Append(upstream,
                                SessionCall(CallsStarted, params, FALSE, NoResponse))
          /\ SessionOuterExcept(DescRate)
    /\ UNCHANGED << session_frame, current_model, last_model_used, last_sources, messages,
                    next_params, models_to_try, fb_models_to_try, fb_model_index,
                    current_round, current_response, tool_index, executed >>

\* The round loop is entered, or entered again (lines 218-226, 270-288).
SessionEnterRound(response, round) ==
    LET entry == RoundEntry(round, response, messages)
    IN /\ pc' = entry.pc
       /\ current_round' = entry.round
       /\ messages' = entry.messages
       /\ tool_index' = 1
       /\ result' = entry.result

\* Lines 161-174: the attempt succeeds.
SessionInitialSucceeds ==
    /\ pc = "initial"
    /\ \E response \in SessionResponses :
        LET params == [api_params EXCEPT !.model = models_to_try[model_index]]
        IN /\ api_params' = params
           /\ upstream' = Append(upstream,
                                 SessionCall(CallsStarted, params, TRUE, response))
           /\ last_model_used' = params.model
           /\ current_response' = response
           /\ IF NeedsToolExecution(response, tool_manager)
              THEN SessionEnterRound(response, 0)
              ELSE /\ result' = Returned(ResponseText(response))
                   /\ pc' = "done"
                   /\ UNCHANGED << current_round, messages, tool_index >>
    /\ UNCHANGED << session_frame, current_model, last_sources, next_params,
                    models_to_try, model_index, fb_models_to_try, fb_model_index,
                    error_msg, executed >>

\* Lines 290-313: one tool call through the registry; after the last one the
\* follow-up request is built (lines 235-250 and 358).
SessionDispatchTool ==
    /\ pc = "dispatch"
    /\ LET tool_call == current_response.tool_calls[tool_index]
       IN \E r \in SessionResults(CallsStarted, tool_call.id) :
            LET d == Dispatch(tools, last_sources, tool_call, Env(r, OutlineFound))
                msgs == Append(messages, ToolMessage(tool_call, d.outcome.tool_result))
            IN /\ last_sources' = d.srcs
               /\ executed' = Append(executed,
                                     SessionOp("execute_tool", CallsStarted, current_model,
                                               None, r, <<>>, d.outcome.tool_result,
                                               last_sources, d.srcs))
               /\ IF d.outcome.propagates
                  THEN /\ SessionOuterExcept(d.outcome.tool_result)
                       /\ UNCHANGED << messages, tool_index, next_params,
                                       fb_models_to_try, fb_model_index >>
                  ELSE /\ messages' = msgs
                       /\ UNCHANGED << model_index, error_msg, result >>
                       /\ IF tool_index < Len(current_response.tool_calls)
                          THEN /\ tool_index' = tool_index + 1
                               /\ UNCHANGED << pc, next_params, fb_models_to_try,
                                               fb_model_index >>
                          ELSE /\ next_params' =
                                    BuildRoundParams(api_params, msgs,
                                                     ShouldIncludeTools(current_round))
                               /\ fb_models_to_try' =
                                    ModelsToTry(FollowupPrimary(api_params, last_model_used),
                                                fallback_models)
                               /\ fb_model_index' = 1
                               /\ pc' = "followup"
                               /\ UNCHANGED tool_index
    /\ UNCHANGED << session_frame, current_model, last_model_used, api_params,
                    models_to_try, current_round, current_response, upstream >>

\* Lines 360-373 and 251-253: the follow-up attempt raises.
SessionFollowupFails ==
    /\ pc = "followup"
    /\ Failures(upstream) < MaxSessionFailures
    /\ LET params == [next_params EXCEPT !.model = fb_models_to_try[fb_model_index]]
       IN /\ next_params' = params
          /\ upstream' = Append(upstream,
                                SessionCall(CallsStarted, params, FALSE, NoResponse))
          /\ IF fb_model_index < Len(fb_models_to_try)
             THEN /\ fb_model_index' = fb_model_index + 1
                  /\ UNCHANGED << pc, error_msg, result, model_index >>
             ELSE IF RoundCatches(DescRate)
             THEN /\ error_msg' = Some(DescRate)
                  /\ result' = OnRoundFailure(DescRate)
                  /\ pc' = "done"
                  /\ UNCHANGED << fb_model_index, model_index >>
             ELSE /\ SessionOuterExcept(DescRate)
                  /\ UNCHANGED fb_model_index
    /\ UNCHANGED << session_frame, current_model, last_model_used, last_sources, messages,
                    api_params, models_to_try, fb_models_to_try, current_round,
                    current_response, tool_index, executed >>

\* Lines 360-365 and 247: the follow-up attempt succeeds and the loop goes round.
SessionFollowupSucceeds ==
    /\ pc = "followup"
    /\ \E response \in SessionResponses :
        LET params == [next_params EXCEPT !.model = fb_models_to_try[fb_model_index]]
        IN /\ next_params' = params
           /\ upstream' = Append(upstream,
                                 SessionCall(CallsStarted, params, TRUE, response))
           /\ last_model_used' = params.model
           /\ current_response' = response
           /\ SessionEnterRound(response, current_round)
    /\ UNCHANGED << session_frame, current_model, last_sources, api_params,
                    models_to_try, model_index, fb_models_to_try, fb_model_index,
                    error_msg, executed >>

\* generate_response() returned: the host calls get_current_model() and
\* get_last_sources().
SessionGetLastSources ==
    /\ pc = "done"
    /\ executed' = Append(executed,
                          SessionOp("get_last_sources", CallsStarted, current_model, None,
                                    ResultsEmpty, result.value,
                                    GetLastSources(tools, last_sources),
                                    last_sources, last_sources))
    /\ pc' = "idle"
    /\ UNCHANGED << session_frame, session_locals, current_model, last_model_used,
                    last_sources, upstream >>

SessionNext ==
    \/ SessionSetModel
    \/ SessionResetSources
    \/ SessionGenerate
    \/ SessionInitialFails
    \/ SessionInitialSucceeds
    \/ SessionDispatchTool
    \/ SessionFollowupFails
    \/ SessionFollowupSucceeds
    \/ SessionGetLastSources

SpecSession == SessionInit /\ [][SessionNext]_vars

(***************************************************************************)
(* Properties.                                                             *)
(***************************************************************************)
IsAssistant(m) == m.role = "assistant"
IsOk(c) == c.ok

\* The successful upstream calls of this generate_response(), in order.
OkCalls == SelectSeq(upstream, IsOk)

\* The outbound request a transcript belongs to: 0 for the initial request, r for
\* the follow-up request of round r (it carries r assistant tool-call messages).
RequestOf(msgs) == Len(SelectSeq(msgs, IsAssistant))

UserFacingErrorHeads ==
    { MsgConnect[1], MsgSsl[1], MsgTimeout[1], MsgDifficulties[1], MsgDifficultiesRound[1] }

\* C1: generate_response() never raises.  Whatever the provider and the tools do,
\* the call is never stuck before it returns, what the caller gets is a returned
\* string, and when the fallback chain was exhausted (on the initial call or on a
\* follow-up call) that string is one of the user-facing error messages.
C1_NeverRaises ==
    /\ result.kind # "raised"
    /\ pc \notin {"idle", "done"} => ENABLED Next
    /\ pc = "done" => result.kind = "returned"
    /\ pc = "done" /\ ~IsNone(error_msg) =>
          /\ Len(result.value) > 0
          /\ result.value[1] \in UserFacingErrorHeads

\* C1 witness: a tool raised in round 2, then the follow-up call failed on every
\* model, and generate_response() returned.
C1_Witness ==
    /\ pc = "done"
    /\ result.kind = "returned"
    /\ ~IsNone(error_msg)
    /\ current_round = 2
    /\ \E k \in 1..Len(executed) : executed[k].raised

\* C2 as stated: generate_response() always returns a non-empty string.
C2_AlwaysNonEmpty ==
    pc = "done" => result.kind = "returned" /\ result.value # <<>>

\* C2 amended: generate_response() always returns a string; it is non-empty when
\* every provider attempt of an outbound request failed, and otherwise it is the
\* text of the last response, which is the empty string exactly when that response
\* carries no text.
C2_NonEmptyOnFailure ==
    pc = "done" =>
        /\ result.kind = "returned"
        /\ ~IsNone(error_msg) => result.value # <<>>
        /\ IsNone(error_msg) =>
              /\ IsNone(current_response.content) => result.value = <<>>
              /\ ~IsNone(current_response.content) =>
                    result.value = current_response.content[1]

\* C2 witness: after a tool round the follow-up call fails on every model and the
\* caller gets a non-empty string.
C2_Witness ==
    /\ pc = "done"
    /\ ~IsNone(error_msg)
    /\ current_round >= 1
    /\ Len(executed) > 0
    /\ result.value # <<>>

\* Ids of the tool calls handed to the registry, and of the tool results in the
\* transcript.
ExecutedIds == { executed[k].id : k \in 1..Len(executed) }
ResultIds(msgs) ==
    { Get(msgs[k].tool_call_id) : k \in { j \in 1..Len(msgs) : msgs[j].role = "tool" } }
CallIds(response) == { response.tool_calls[k].id : k \in 1..Len(response.tool_calls) }

\* C3: at most 2 tool rounds occur in a generate_response(): the round counter only
\* increases and never exceeds 2, at most three requests are answered, the tools run
\* and the tool results in the transcript belong to the first two responses only, and
\* the tool calls requested by the response to the third request are never executed.
C3_AtMostTwoRounds ==
    /\ [](/\ current_round \in 0..2
          /\ Len(OkCalls) <= 3
          /\ RequestOf(messages) <= 2
          /\ \A k \in 1..Len(upstream) : RequestOf(upstream[k].messages) <= 2
          /\ \A id \in ExecutedIds \cup ResultIds(messages) :
                \E k \in 1..Len(OkCalls) : k <= 2 /\ id \in CallIds(OkCalls[k].response)
          /\ Len(OkCalls) = 3 =>
                CallIds(OkCalls[3].response) \cap (ExecutedIds \cup ResultIds(messages)) = {})
    /\ [][current_round' >= current_round]_vars

\* C3 witness: two rounds ran, the response to the third request asks for a tool
\* again, and generate_response() returned.
C3_Witness ==
    /\ pc = "done"
    /\ current_round = 2
    /\ Len(OkCalls) = 3
    /\ Len(OkCalls[3].response.tool_calls) > 0
    /\ Len(executed) = 2

\* C4: tool definitions with tool_choice "auto" are attached to every attempt of the
\* initial request and of the follow-up request of round 1, and to no attempt of the
\* follow-up request of round 2 (tools being passed to generate_response()).
C4_ToolsPerRound ==
    \A k \in 1..Len(upstream) :
        LET call == upstream[k]
            round == RequestOf(call.messages)
        IN /\ tools_arg /\ round < 2 => call.tools /\ call.tool_choice = Some("auto")
           /\ round >= 2 => ~call.tools /\ IsNone(call.tool_choice)
           /\ ~tools_arg => ~call.tools /\ IsNone(call.tool_choice)

\* C4 witness: with tools passed, the initial request, the follow-up of round 1 and
\* the follow-up of round 2 were each attempted on more than one model.
C4_Witness ==
    /\ tools_arg
    /\ \A r \in 0..2 :
          \E j, k \in 1..Len(upstream) :
              /\ j < k
              /\ RequestOf(upstream[j].messages) = r
              /\ RequestOf(upstream[k].messages) = r
              /\ upstream[j].model # upstream[k].model

\* The attempts made for outbound request r, in the order they were made.
AttemptsOf(r) == SelectSeq(upstream, LAMBDA c : RequestOf(c.messages) = r)

\* The chain the fallback list [A, B, C] gives each primary model.
ChainFrom(primary) ==
    CASE primary = "A" -> <<"A", "B", "C">>
      [] primary = "B" -> <<"B", "A", "C">>
      [] primary = "C" -> <<"C", "A", "B">>

\* The primary model of request r: the configured model for the initial request,
\* the model that served the initial request for a follow-up request.
PrimaryOf(r) ==
    IF r = 0 THEN current_model ELSE AttemptsOf(0)[Len(AttemptsOf(0))].model

\* C5: within one outbound request the models are tried strictly in chain order
\* (fallback list [A, B, C]) and the first success ends the attempts: no attempt of
\* the request follows a successful one, and the response in use, the model recorded
\* and a successful result are those of the last successful attempt.
C5_ChainOrder ==
    /\ \A r \in 0..2 :
          LET attempts == AttemptsOf(r)
          IN Len(attempts) > 0 =>
                /\ Len(attempts) <= 3
                /\ \A k \in 1..Len(attempts) :
                      /\ attempts[k].model = ChainFrom(PrimaryOf(r))[k]
                      /\ attempts[k].ok => k = Len(attempts)
    /\ Len(OkCalls) > 0 =>
          /\ current_response = OkCalls[Len(OkCalls)].response
          /\ last_model_used = OkCalls[Len(OkCalls)].model
    /\ pc = "done" /\ IsNone(error_msg) =>
          result = Returned(OrEmpty(OkCalls[Len(OkCalls)].response.content))

\* C5 witness: A fails and B succeeds on the initial request (C is not called), then
\* on the follow-up request B and A fail and C succeeds: exactly 3 calls for it, and
\* the result is the output of C.
C5_Witness ==
    /\ pc = "done"
    /\ Len(upstream) = 5
    /\ [k \in 1..5 |-> upstream[k].model] = <<"A", "B", "B", "A", "C">>
    /\ [k \in 1..5 |-> upstream[k].ok] = <<FALSE, TRUE, FALSE, FALSE, TRUE>>
    /\ result = Returned(AnswerText(2))

\* A transcript tail made of rounds: an assistant message requesting n >= 1 calls,
\* then exactly n tool messages carrying the requested ids in the requested order.
RECURSIVE Rounds(_)
Rounds(msgs) ==
    \/ msgs = <<>>
    \/ /\ msgs[1].role = "assistant"
       /\ LET n == Len(msgs[1].tool_calls)
          IN /\ n > 0
             /\ Len(msgs) >= n + 1
             /\ \A i \in 1..n :
                   /\ msgs[i + 1].role = "tool"
                   /\ msgs[i + 1].tool_call_id = Some(msgs[1].tool_calls[i].id)
                   /\ ~IsNone(msgs[i + 1].content)
             /\ Rounds(SubSeq(msgs, n + 2, Len(msgs)))

WellFormed(msgs) ==
    /\ Len(msgs) >= 2
    /\ msgs[1].role = "system"
    /\ msgs[2].role = "user"
    /\ Rounds(SubSeq(msgs, 3, Len(msgs)))

\* The assistant messages of a transcript, in order.
AssistantMessages(msgs) == SelectSeq(msgs, IsAssistant)

\* C6: in every transcript sent upstream, and in the transcript held between rounds,
\* each assistant tool-call message is immediately followed by exactly one tool
\* result per requested call id, in the order requested, before the next assistant
\* message; the r-th assistant message requests the calls of the r-th response.
C6_ResultsFollowCalls ==
    /\ \A k \in 1..Len(upstream) : WellFormed(upstream[k].messages)
    /\ pc \in {"loop", "followup", "done"} =>
          /\ WellFormed(messages)
          /\ \A r \in 1..Len(AssistantMessages(messages)) :
                AssistantMessages(messages)[r].tool_calls = OkCalls[r].response.tool_calls
    /\ pc = "dispatch" =>
          LET done == tool_index - 1
              sofar == current_response.tool_calls
          IN /\ Len(messages) > done
             /\ messages[Len(messages) - done] = AssistantMessage(current_response)
             /\ \A i \in 1..done :
                   /\ messages[Len(messages) - done + i].role = "tool"
                   /\ messages[Len(messages) - done + i].tool_call_id = Some(sofar[i].id)

\* C6 witness: a transcript was sent whose round requested a search that raised, a
\* call with malformed arguments and an unknown tool, each with its result.
C6_Witness ==
    \E k \in 1..Len(upstream) :
        LET msgs == upstream[k].messages
        IN /\ Len(msgs) = 6
           /\ \E a, b, c \in 1..3 :
                 /\ msgs[3].tool_calls[a].arguments = ArgsMalformed
                 /\ msgs[3].tool_calls[b].name = UnknownName
                 /\ \E j \in 1..Len(executed) :
                       /\ executed[j].id = msgs[3].tool_calls[c].id
                       /\ executed[j].raised
                       /\ executed[j].results = ResultsRaise

\* The follow-up request of some round was attempted on every model of the chain and
\* failed on each.
FollowupChainFailed ==
    \E r \in 1..2 :
        /\ Len(AttemptsOf(r)) = 3
        /\ \A k \in 1..3 : ~AttemptsOf(r)[k].ok

\* The message each kind of failure is reported with after a round.
CategorizedAfterRound(e) ==
    CASE e \in {DescConnection, DescConnectUpper, DescConnectTimeout} -> MsgConnect
      [] e \in {DescSsl, DescCert} -> MsgSsl
      [] e = DescTimeout -> MsgTimeout
      [] e \in {DescLong, DescRate, DescEmpty, DescTimedOut} ->
            <<"I'm experiencing technical difficulties processing your request.">>

ResultsFor(msgs, id) ==
    SelectSeq(msgs, LAMBDA m : m.role = "tool" /\ m.tool_call_id = Some(id))

\* The response that requested call `id`.
RequesterOf(id) ==
    CHOOSE c \in { OkCalls[k] : k \in 1..Len(OkCalls) } : id \in CallIds(c.response)

\* C8: a tool dispatch that raises never aborts the round.  For every executed call
\* that raised: its result in the transcript is an "Error executing tool: ..." text,
\* the dispatch loop goes on, once the round's loop is over every call of the same
\* response has its result, and once the round is over the follow-up request that
\* carries these results has been issued.
C8_RaisingToolKeepsRound ==
    /\ pc = "dispatch" => ENABLED (DispatchTool \/ BuildFollowup)
    /\ \A k \in 1..Len(executed) :
          executed[k].raised =>
             LET id == executed[k].id
                 mine == ResultsFor(messages, id)
             IN /\ Len(mine) = 1
                /\ Get(mine[1].content)[1] = "Error executing tool: "
                /\ pc # "dispatch" =>
                      \A other \in CallIds(RequesterOf(id).response) :
                          Len(ResultsFor(messages, other)) = 1
                /\ pc \in {"loop", "done"} =>
                      \E j \in 1..Len(upstream) :
                          Len(ResultsFor(upstream[j].messages, id)) = 1

\* C8 witness: the first call of a round raised in the store, the next call of the
\* same round was executed, the follow-up request was answered and
\* generate_response() returned that answer.
C8_Witness ==
    /\ pc = "done"
    /\ IsNone(error_msg)
    /\ Len(executed) >= 2
    /\ executed[1].raised
    /\ executed[1].results = ResultsRaise
    /\ executed[2].id \in CallIds(OkCalls[1].response)
    /\ Len(OkCalls) = 2
    /\ result = Returned(AnswerText(2))

\* Call i of the k-th response has been through its iteration of the dispatch loop.
Processed(k, i) ==
    /\ RequestOf(messages) >= k
    /\ \/ RequestOf(messages) > k
       \/ pc # "dispatch"
       \/ i < tool_index

\* The executions the registry was asked for under call id `id`.
ExecutionsOf(id) == SelectSeq(executed, LAMBDA x : x.id = id)

\* C9: a tool call whose arguments are malformed JSON is executed through the
\* registry, once, with an empty argument set; the parse failure is not propagated
\* (the call gets its result message, and generate_response() reports no error but a
\* failed upstream chain) and the round continues up to its follow-up request.
C9_MalformedArgsRunEmpty ==
    /\ \A k \in 1..Len(OkCalls) :
          \A i \in 1..Len(OkCalls[k].response.tool_calls) :
             LET tool_call == OkCalls[k].response.tool_calls[i]
             IN tool_call.arguments = ArgsMalformed /\ Processed(k, i) =>
                   /\ Len(ExecutionsOf(tool_call.id)) = 1
                   /\ ExecutionsOf(tool_call.id)[1].kwargs = NoKwargs
                   /\ ExecutionsOf(tool_call.id)[1].name = tool_call.name
                   /\ Len(ResultsFor(messages, tool_call.id)) = 1
                   /\ pc \in {"loop", "done"} =>
                         \E j \in 1..Len(upstream) :
                             Len(ResultsFor(upstream[j].messages, tool_call.id)) = 1
    /\ ~IsNone(error_msg) => Get(error_msg) \in UpstreamErrors /\ ~upstream[Len(upstream)].ok

\* C9 witness: a call with malformed arguments was executed with no arguments, the
\* call after it in the same round was executed too, and the follow-up request was
\* answered.
C9_Witness ==
    /\ pc = "done"
    /\ IsNone(error_msg)
    /\ Len(executed) >= 2
    /\ executed[1].kwargs = NoKwargs
    /\ OkCalls[1].response.tool_calls[1].arguments = ArgsMalformed
    /\ executed[1].id = OkCalls[1].response.tool_calls[1].id
    /\ executed[2].id = OkCalls[1].response.tool_calls[2].id
    /\ Len(OkCalls) >= 2

\* The executions that entered CourseSearchTool.execute (the query was passed).
SearchExecutions ==
    { k \in 1..Len(executed) :
        executed[k].name = SearchName /\ ~IsNone(executed[k].kwargs.query) }

\* The search of an execution gave results to format: no exception, no error text,
\* at least one document.
GaveResults(x) ==
    /\ ~x.results.raised
    /\ IsNone(x.results.error)
    /\ Len(x.results.documents) > 0

\* The citations of one execution: one per result formatted, none otherwise.
CitationsOf(x) == IF GaveResults(x) THEN Sources(x.results) ELSE <<>>

\* C10 as stated: every execution of the search tool leaves the tool's stored
\* citation list equal to the citations of that execution, whatever its outcome
\* (results, no results, retrieval error).
C10_AlwaysReplaced ==
    \A k \in SearchExecutions :
        \A t \in {ToolOf(tools, SearchName)} :
            executed[k].after[t] = CitationsOf(executed[k])

\* C10 amended: an execution of the search tool that gets results fully replaces the
\* stored citation list with the citations of that execution (no append, nothing
\* kept); an execution that ends with no results, a retrieval error or an exception
\* leaves the stored list as it was.
C10_ReplacedWhenFormatted ==
    \A k \in SearchExecutions :
        \A t \in {ToolOf(tools, SearchName)} :
            /\ GaveResults(executed[k]) =>
                  executed[k].after[t] = Sources(executed[k].results)
            /\ ~GaveResults(executed[k]) => executed[k].after[t] = executed[k].before[t]
            /\ k = Len(executed) /\ last_sources[t] # <<>> =>
                  last_sources[t] = executed[k].after[t]

\* C10 witness: a search with results replaced a different non-empty stored list,
\* and a search without results left a non-empty stored list in place.
C10_Witness ==
    /\ \E k \in SearchExecutions :
          /\ GaveResults(executed[k])
          /\ executed[k].before["search1"] # <<>>
          /\ executed[k].before["search1"] # executed[k].after["search1"]
    /\ \E k \in SearchExecutions :
          /\ executed[k].results = ResultsEmpty
          /\ executed[k].before["search1"] # <<>>
          /\ executed[k].after["search1"] = executed[k].before["search1"]

\* The text a response carries ("" when it carries none).
TextOf(response) == IF IsNone(response.content) THEN <<>> ELSE response.content[1]

\* The first response of this generate_response() carries no tool-call request.
FirstAnswerIsDirect ==
    /\ Len(OkCalls) >= 1
    /\ Len(OkCalls[1].response.tool_calls) = 0

\* C11 as stated: when the initial response carries no tool-call request,
\* generate_response() returns its text after exactly one upstream call in total and
\* no tool execution.
C11_OneUpstreamCall ==
    pc = "done" /\ FirstAnswerIsDirect =>
        /\ result = Returned(TextOf(OkCalls[1].response))
        /\ Len(upstream) = 1
        /\ executed = <<>>

\* C11 amended: when the initial response carries no tool-call request,
\* generate_response() returns its text with that response as the last upstream call
\* and the only answered one, all attempts being attempts of the initial request
\* (exactly one call when the first model answers, one more per model of the chain
\* that failed before), and no tool execution.
C11_OneAnsweredCall ==
    FirstAnswerIsDirect =>
        /\ pc \in {"loop", "done"}
        /\ pc = "done" => result = Returned(TextOf(OkCalls[1].response))
        /\ Len(OkCalls) = 1
        /\ upstream[Len(upstream)].ok
        /\ \A k \in 1..Len(upstream) : RequestOf(upstream[k].messages) = 0
        /\ Len(upstream) <= 3
        /\ upstream[1].ok => Len(upstream) = 1
        /\ executed = <<>>
        /\ messages = upstream[1].messages

\* C11 witness: tools and a registry were passed, the first model answered with text
\* and no tool call, and generate_response() returned that text.
C11_Witness ==
    /\ pc = "done"
    /\ tools_arg /\ tool_manager
    /\ FirstAnswerIsDirect
    /\ OkCalls[1].response.finish_reason = "tool_calls"
    /\ Len(upstream) = 1
    /\ result = Returned(AnswerText(1))

\* The latest response is the answer to a follow-up request and carries no
\* tool-call request.
FollowupAnswerIsDirect ==
    /\ Len(OkCalls) >= 2
    /\ Len(OkCalls[Len(OkCalls)].response.tool_calls) = 0

AllAttemptsSucceeded == \A k \in 1..Len(upstream) : upstream[k].ok

\* C12 as stated: when the response to a round's follow-up call carries no tool-call
\* request, generate_response() returns its text without another upstream call, and
\* an exchange with one tool round makes exactly 2 upstream calls.
C12_TwoUpstreamCalls ==
    pc = "done" /\ FollowupAnswerIsDirect =>
        /\ result = Returned(TextOf(OkCalls[Len(OkCalls)].response))
        /\ upstream[Len(upstream)] = OkCalls[Len(OkCalls)]
        /\ RequestOf(messages) = 1 => Len(upstream) = 2

\* C12 amended: when the response to a round's follow-up call carries no tool-call
\* request, generate_response() returns its text with that response as the last
\* upstream call; an exchange with one tool round has exactly 2 answered upstream
\* calls, which are all its upstream calls when no attempt failed (each request may
\* add one failed attempt per model of the chain that failed before the answer).
C12_EarlyExit ==
    FollowupAnswerIsDirect =>
        LET n == Len(OkCalls)
        IN /\ pc \in {"loop", "done"}
           /\ pc = "done" => result = Returned(TextOf(OkCalls[n].response))
           /\ upstream[Len(upstream)] = OkCalls[n]
           /\ RequestOf(messages) = n - 1
           /\ RequestOf(upstream[Len(upstream)].messages) = n - 1
           /\ AllAttemptsSucceeded => Len(upstream) = n
           /\ Len(upstream) <= 3 * n

\* C12 witness: one tool round ran, the follow-up response carried text and no tool
\* call, and generate_response() returned that text after exactly 2 upstream calls.
C12_Witness ==
    /\ pc = "done"
    /\ FollowupAnswerIsDirect
    /\ Len(upstream) = 2
    /\ RequestOf(messages) = 1
    /\ Len(executed) >= 1
    /\ result = Returned(AnswerText(2))

\* C13: a 2-round tool exchange in which every upstream attempt succeeds, the initial
\* response and the first follow-up response each requesting one tool call, makes
\* exactly 3 upstream calls and 2 tool executions, and the returned text is the text
\* of the third response.
C13_TwoRoundExchange ==
    /\ pc = "done"
    /\ AllAttemptsSucceeded
    /\ Len(OkCalls) >= 2
    /\ Len(OkCalls[1].response.tool_calls) = 1
    /\ Len(OkCalls[2].response.tool_calls) = 1
    => /\ Len(upstream) = 3
       /\ Len(executed) = 2
       /\ executed[1].id = OkCalls[1].response.tool_calls[1].id
       /\ executed[2].id = OkCalls[2].response.tool_calls[1].id
       /\ result = Returned(TextOf(upstream[3].response))

\* C13 witness: such an exchange ended with the text of the third response.
C13_Witness ==
    /\ pc = "done"
    /\ AllAttemptsSucceeded
    /\ Len(upstream) = 3
    /\ Len(executed) = 2
    /\ Len(OkCalls[1].response.tool_calls) = 1
    /\ Len(OkCalls[2].response.tool_calls) = 1
    /\ result = Returned(AnswerText(3))

\* A description matches a marker whatever the case of its letters.
Mentions(e, marker) ==
    \E i \in 0..(Len(e) - Len(marker)) :
        \A j \in 1..Len(marker) : LowerChar(e[i + j]) = marker[j]

ConnectivityRelated(e) == Mentions(e, <<"c", "o", "n", "n", "e", "c", "t">>)
CertificateRelated(e) ==
    \/ Mentions(e, <<"c", "e", "r", "t", "i", "f", "i", "c", "a", "t", "e">>)
    \/ Mentions(e, <<"s", "s", "l">>)
TimeoutRelated(e) == Mentions(e, <<"t", "i", "m", "e", "o", "u", "t">>)

\* The chain was exhausted on the initial request (not on a follow-up request).
InitialChainFailed ==
    /\ pc = "done"
    /\ ~IsNone(error_msg)
    /\ RequestOf(upstream[Len(upstream)].messages) = 0

\* C14: the string returned after the whole chain failed is chosen by
\* case-insensitive substring match on the description of the last failure, the
\* categories being tried in the order connectivity, certificate/SSL, timeout:
\* the connectivity message, the trust-store message, the timeout message, else the
\* generic message, which exposes at most the first 100 characters of the detail
\* (on the initial request) or none of it (on a follow-up request).
C14_Classification ==
    pc = "done" /\ ~IsNone(error_msg) =>
        LET e == Get(error_msg)
        IN /\ ConnectivityRelated(e) =>
                 result = Returned(<<"I'm unable to connect to the AI service. Please check your network connection or try again later.">>)
           /\ ~ConnectivityRelated(e) /\ CertificateRelated(e) =>
                 result = Returned(<<"I'm experiencing SSL/certificate issues connecting to the AI service. Please contact support.">>)
           /\ ~ConnectivityRelated(e) /\ ~CertificateRelated(e) /\ TimeoutRelated(e) =>
                 result = Returned(<<"The AI service request timed out. Please try again.">>)
           /\ ~ConnectivityRelated(e) /\ ~CertificateRelated(e) /\ ~TimeoutRelated(e) =>
                 IF InitialChainFailed
                 THEN /\ result.kind = "returned"
                      /\ result.value[1] = "I'm experiencing technical difficulties. Error: "
                      /\ Len(result.value) - 1 = (IF Len(e) < 100 THEN Len(e) ELSE 100)
                      /\ \A i \in 2..Len(result.value) : result.value[i] = e[i - 1]
                 ELSE result = Returned(<<"I'm experiencing technical difficulties processing your request.">>)

\* C14 witness: the chain failed on the initial request with the last failure
\* "Read Timeout" (capitals) and the caller got the timeout message.
C14_Witness ==
    /\ InitialChainFailed
    /\ error_msg = Some(DescTimeout)
    /\ result = Returned(MsgTimeout)

\* A list with every occurrence of x taken out, the rest in its order.
RECURSIVE Without(_, _)
Without(list, x) ==
    IF list = <<>> THEN <<>>
    ELSE IF Head(list) = x THEN Without(Tail(list), x)
    ELSE <<Head(list)>> \o Without(Tail(list), x)

Occurrences(list, x) == Cardinality({ i \in 1..Len(list) : list[i] = x })

\* `chain` is the primary, then the fallbacks without the primary, in their order.
IsChainOf(chain, primary, fallbacks) ==
    /\ Len(chain) >= 1
    /\ chain[1] = primary
    /\ Occurrences(chain, primary) = 1
    /\ Tail(chain) = Without(fallbacks, primary)
    /\ Len(chain) = 1 + Len(fallbacks) - Occurrences(fallbacks, primary)

\* C15: the fallback chain of an outbound request (the initial one, from the active
\* model; a follow-up one, from the model that served the initial request) is the
\* primary model followed by the configured fallback models with every occurrence of
\* the primary removed and the order of the others kept; the primary appears exactly
\* once and first.
C15_ChainShape ==
    /\ pc \in {"chain", "fbchain"} =>
          IsChainOf(models_to_try, current_model, fallback_models)
    /\ pc = "fbchain" =>
          IsChainOf(fb_models_to_try, api_params.model, fallback_models)

\* C15 witness: the primary occurs twice in the fallback list, not at its head, and
\* the chain of a follow-up request was built from a fallback model.
C15_Witness ==
    /\ pc = "fbchain"
    /\ Occurrences(fallback_models, current_model) = 2
    /\ fallback_models[1] # current_model
    /\ api_params.model # current_model
    /\ Len(fb_models_to_try) = 3

\* The name each tool object gives in its definition.
NameOfTool(tool) ==
    CASE tool \in {"search1", "search2"} -> "search_course_content"
      [] tool = "outline1" -> "get_course_outline"
      [] tool = "notes1" -> "lookup_notes"

\* The names registered so far, each at the place of its first registration.
RECURSIVE NamesInOrder(_)
NamesInOrder(history) ==
    IF history = <<>> THEN <<>>
    ELSE LET before == NamesInOrder(SubSeq(history, 1, Len(history) - 1))
             name == NameOfTool(history[Len(history)])
         IN IF \E i \in 1..Len(before) : before[i] = name THEN before
            ELSE Append(before, name)

\* The tool registered last under `name`.
LatestTool(history, name) ==
    history[CHOOSE i \in 1..Len(history) :
               /\ NameOfTool(history[i]) = name
               /\ \A j \in (i + 1)..Len(history) : NameOfTool(history[j]) # name]

NameIsRegistered(name) ==
    \E i \in 1..Len(registrations) : NameOfTool(registrations[i]) = name

\* The registry the registrations made so far should give: one entry per name, in
\* the order the names were first registered, each with the tool registered last
\* under it.
ExpectedRegistry ==
    [i \in 1..Len(NamesInOrder(registrations)) |->
        [name |-> NamesInOrder(registrations)[i],
         tool |-> LatestTool(registrations, NamesInOrder(registrations)[i])]]

\* C16: register_tool keys a tool by the name of its definition; a second tool
\* registered under a name replaces the first (one entry per name, and the name is
\* dispatched to the new tool only); a tool whose definition has no name (or an
\* empty one) makes register_tool raise and leaves the registry as it was.
C16_RegisterByName ==
    /\ tools = ExpectedRegistry
    /\ pc = "registered" =>
          LET call == executed[1]
          IN IF call.arg \in NamelessTools
             THEN /\ result = Raised(<<"Tool must have a 'name' in its definition">>)
                  /\ tools = call.tools
                  /\ last_sources = call.last_sources
             ELSE /\ result.kind = "returned"
                  /\ \E i \in 1..Len(tools) :
                        tools[i] = [name |-> NameOfTool(call.arg), tool |-> call.arg]
                  /\ \A i \in 1..Len(call.tools) :
                        call.tools[i].name # NameOfTool(call.arg) => tools[i] = call.tools[i]
    /\ pc = "executed" /\ NameIsRegistered(executed[1].arg) =>
          executed[1].ran = << LatestTool(registrations, executed[1].arg) >>

\* C16 witness: search2 was registered over search1 with another tool registered in
\* between, and the search name was then dispatched to search2.
C16_Witness ==
    /\ pc = "executed"
    /\ registrations = <<"search1", "notes1", "search2">>
    /\ executed[1].arg = SearchName
    /\ executed[1].ran = <<"search2">>
    /\ Len(tools) = 2

\* C16, the failing registration reached: a nameless tool was refused by a registry
\* that holds tools.
C16_WitnessNameless ==
    /\ pc = "registered"
    /\ executed[1].arg \in NamelessTools
    /\ Len(tools) = 2
    /\ result.kind = "raised"

\* What the tool itself gives for the execution recorded in `call`.
OwnOutcome(tool, call) ==
    IF tool \in {"search1", "search2"}
    THEN SearchExecute(call.kwargs, call.results, call.last_sources[tool])
    ELSE IF tool = "notes1"
    THEN NotesExecute(call.kwargs, call.last_sources[tool])
    ELSE OutlineExecute(call.kwargs, OutlineFound)

\* C17: execute_tool with a name that is not registered returns the text
\* "Tool '<name>' not found" without raising, enters no tool and changes no citation
\* list; with a registered name it enters exactly the tool registered under it,
\* once, and gives its caller what that tool gave (its text, or its exception), no
\* other tool's citations being touched.
C17_ExecuteByName ==
    pc = "executed" =>
        LET call == executed[1]
        IN /\ tools = call.tools
           /\ IF ~NameIsRegistered(call.arg)
              THEN /\ result = Returned(<<"Tool '", call.arg, "' not found">>)
                   /\ call.ran = <<>>
                   /\ last_sources = call.last_sources
              ELSE LET tool == LatestTool(registrations, call.arg)
                       own == OwnOutcome(tool, call)
                   IN /\ call.ran = <<tool>>
                      /\ result.kind = (IF own.raised THEN "raised" ELSE "returned")
                      /\ result.value = own.value
                      /\ \A t \in DOMAIN last_sources :
                            t # tool => last_sources[t] = call.last_sources[t]

\* C17 witness: the search name was asked for while only another tool, holding
\* citations, was registered; the caller got the "not found" text and the citations
\* stayed.
C17_Witness ==
    /\ pc = "executed"
    /\ executed[1].arg = SearchName
    /\ ~NameIsRegistered(SearchName)
    /\ NameIsRegistered(NotesName)
    /\ last_sources["notes1"] # <<>>
    /\ result = Returned(<<"Tool '", SearchName, "' not found">>)

\* C18: get_tool_definitions() gives the definitions of the tools registered at
\* that moment, one per registered name, in the order the names were registered,
\* after any sequence of registrations, re-registrations included (a name registered
\* again keeps its place); it changes nothing.
C18_DefinitionsInOrder ==
    pc = "definitions" =>
        /\ result.kind = "returned"
        /\ Len(result.value) = Len(NamesInOrder(registrations))
        /\ \A i \in 1..Len(result.value) :
              result.value[i] = [type |-> "function",
                                 name |-> <<NamesInOrder(registrations)[i]>>]
        /\ \A i, j \in 1..Len(result.value) :
              i # j => result.value[i].name # result.value[j].name
        /\ tools = executed[1].tools
        /\ last_sources = executed[1].last_sources

\* C18 witness: three registrations, one of them a re-registration, gave two
\* definitions, the outline first.
C18_Witness ==
    /\ pc = "definitions"
    /\ registrations = <<"outline1", "search1", "search2">>
    /\ Len(result.value) = 2
    /\ result.value[1].name = Some(OutlineName)

\* The places of the registry, in registration order, whose tool tracks citations
\* and holds some.
PlacesWithCitations ==
    { i \in 1..Len(ExpectedRegistry) :
        /\ ExpectedRegistry[i].tool \in {"search1", "search2", "notes1"}
        /\ last_sources[ExpectedRegistry[i].tool] # <<>> }

\* C19: get_last_sources() returns the citation list of the first tool, in
\* registration order (a name registered again keeps its place), whose citation list
\* is non-empty, the empty list when no registered tool has one, and changes no
\* state.
C19_FirstNonEmptyList ==
    pc = "sources" =>
        /\ result.kind = "returned"
        /\ IF PlacesWithCitations = {}
           THEN result.value = <<>>
           ELSE LET first == CHOOSE i \in PlacesWithCitations :
                                 \A j \in PlacesWithCitations : i <= j
                IN result.value = last_sources[ExpectedRegistry[first].tool]
        /\ tools = executed[1].tools
        /\ last_sources = executed[1].last_sources

\* C19 witness: the search tool was registered first and holds no citations, the
\* notes tool registered after it holds some, and the caller got the notes tool's.
C19_Witness ==
    /\ pc = "sources"
    /\ Len(tools) >= 2
    /\ tools[1].tool = "search1"
    /\ last_sources["search1"] = <<>>
    /\ NameIsRegistered(NotesName)
    /\ last_sources["notes1"] # <<>>
    /\ result = Returned(last_sources["notes1"])

RegisteredTools == { tools[i].tool : i \in 1..Len(tools) }

\* The execution recorded in `call` is one that stores citations: a search that
\* got results, or the notes tool.
StoresCitations(call) ==
    /\ call.op = "execute"
    /\ Len(call.ran) = 1
    /\ \/ call.ran[1] = "notes1"
       \/ /\ call.ran[1] \in {"search1", "search2"}
          /\ ~IsNone(call.kwargs.query)
          /\ ~call.results.raised
          /\ IsNone(call.results.error)
          /\ Len(call.results.documents) > 0

\* C20: reset_sources() empties the citation list of every registered tool and
\* changes nothing else (the registrations stay, the list of a tool that is no
\* longer registered stays); a get_last_sources() right after it returns the empty
\* list; and a citation list changes only by a reset or by an execution that stores
\* citations, whatever other calls are made in between.
C20_ResetClearsAll ==
    /\ [](pc = "reset" =>
            /\ \A t \in DOMAIN last_sources :
                  IF t \in RegisteredTools THEN last_sources[t] = <<>>
                  ELSE last_sources[t] = executed[1].last_sources[t]
            /\ tools = executed[1].tools
            /\ tools = ExpectedRegistry
            /\ result = Returned(<<>>))
    /\ [][pc = "reset" /\ pc' = "sources" => result'.value = <<>>]_vars
    /\ [][\A t \in DOMAIN last_sources :
             last_sources'[t] # last_sources[t] =>
                \/ pc' = "reset" /\ t \in RegisteredTools
                \/ pc' = "executed" /\ StoresCitations(executed'[1])
                                    /\ executed'[1].ran = <<t>>]_vars

\* C20 witness: two registered tools held citations, another call was made in
\* between, and reset_sources() emptied both lists.
C20_Witness ==
    /\ pc = "reset"
    /\ Cardinality({ t \in RegisteredTools \cap DOMAIN last_sources :
                       executed[1].last_sources[t] # <<>> }) = 2
    /\ \A t \in RegisteredTools \cap DOMAIN last_sources : last_sources[t] = <<>>

\* The executions of the search tool that got an answer from store.search().
SearchAnswers ==
    { k \in 1..Len(executed) :
        /\ executed[k].tool = "search1"
        /\ ~IsNone(executed[k].kwargs.query)
        /\ ~executed[k].results.raised }

\* The store's answer carries an error text.
ErrorSignal(run) == ~IsNone(run.results.error) /\ Get(run.results.error) # <<>>

\* The executions whose answer is no error and holds no document.
EmptyAnswers == { k \in SearchAnswers : ~ErrorSignal(executed[k])
                                         /\ Len(executed[k].results.documents) = 0 }

\* The executions whose answer is no error and holds documents.
DocumentAnswers == { k \in SearchAnswers : ~ErrorSignal(executed[k])
                                            /\ Len(executed[k].results.documents) > 0 }

\* A course filter was given (an empty text names no course); a lesson filter was given.
CourseApplied(kw) == ~IsNone(kw.course_name) /\ Get(kw.course_name) # <<>>
LessonApplied(kw) == ~IsNone(kw.lesson_number)

CourseEcho(kw) ==
    IF CourseApplied(kw) THEN <<" in course '">> \o Get(kw.course_name) \o <<"'">> ELSE <<>>

\* C21 as stated: on an empty result set the search tool returns "No relevant content
\* found", then the course filter when one was given, then the lesson filter when one
\* was given, for every lesson number, then ".".
C21_EchoEveryFilter ==
    pc = "runs" =>
        \A k \in EmptyAnswers :
            LET kw == executed[k].kwargs
            IN /\ ~executed[k].raised
               /\ executed[k].value =
                    <<"No relevant content found">> \o CourseEcho(kw)
                    \o (IF LessonApplied(kw)
                        THEN <<" in lesson ", ToString(Get(kw.lesson_number))>> ELSE <<>>)
                    \o <<".">>

\* C21, what the code does: the lesson filter is echoed when it was given and is not
\* 0; course 'MCP' and lesson 4 give exactly "No relevant content found in course
\* 'MCP' in lesson 4.".
C21_EchoNonZeroLesson ==
    pc = "runs" =>
        \A k \in EmptyAnswers :
            LET kw == executed[k].kwargs
            IN /\ ~executed[k].raised
               /\ executed[k].value =
                    <<"No relevant content found">> \o CourseEcho(kw)
                    \o (IF LessonApplied(kw) /\ Get(kw.lesson_number) # 0
                        THEN <<" in lesson ", ToString(Get(kw.lesson_number))>> ELSE <<>>)
                    \o <<".">>
               /\ kw = KwFiltered =>
                    executed[k].value = <<"No relevant content found", " in course '", "MCP",
                                          "'", " in lesson ", "4", ".">>

\* C21 witness: an empty result set under course filter MCP and lesson filter 4.
C21_Witness ==
    /\ pc = "runs"
    /\ \E k \in EmptyAnswers :
          /\ executed[k].kwargs = KwFiltered
          /\ executed[k].value = <<"No relevant content found", " in course '", "MCP", "'",
                                   " in lesson ", "4", ".">>

\* The (document, metadata) pairs of an answer: zip() stops at the shorter list.
PairCount(results) ==
    IF Len(results.documents) < Len(results.metadata)
    THEN Len(results.documents) ELSE Len(results.metadata)

TitleOf(meta) == IF IsNone(meta.course_title) THEN <<"unknown">> ELSE Get(meta.course_title)

\* The header text of a pair without its brackets.
BareHeader(meta) ==
    IF IsNone(meta.lesson_number) THEN TitleOf(meta)
    ELSE TitleOf(meta) \o <<" - Lesson ", ToString(Get(meta.lesson_number))>>

HasLesson(meta) == ~IsNone(meta.lesson_number)

\* The lookups expected for an answer: one per pair that carries a lesson number.
ExpectedLookups(results) ==
    LET with == SelectSeq(SubSeq(results.metadata, 1, PairCount(results)), HasLesson)
    IN [i \in 1..Len(with) |-> <<TitleOf(with[i]), Get(with[i].lesson_number)>>]

\* C22: for non-empty results the search tool stores one citation per result, in
\* result order, its label the header text without the brackets; the lesson-link
\* lookup is made exactly for the results that carry a lesson number, lesson 0
\* included, in result order, and gives the url; the url of a result without a
\* lesson number is absent.
C22_CitationPerResult ==
    pc = "runs" =>
        \A k \in DocumentAnswers :
            LET run == executed[k]
                metas == run.results.metadata
            IN /\ Len(run.after) = PairCount(run.results)
               /\ \A i \in 1..Len(run.after) :
                     /\ run.after[i].label = BareHeader(metas[i])
                     /\ <<"[">> \o run.after[i].label \o <<"]">> = Header(metas[i])
                     /\ run.after[i].url =
                          (IF HasLesson(metas[i])
                           THEN GetLessonLink(TitleOf(metas[i]), Get(metas[i].lesson_number))
                           ELSE None)
               /\ run.lookups = ExpectedLookups(run.results)

\* C22 witness: a result of lesson 0 got its link by a lookup, and a result without a
\* lesson number got no url.
C22_Witness ==
    /\ pc = "runs"
    /\ \E k \in DocumentAnswers :
          /\ executed[k].results = ResultsLessonZero
          /\ executed[k].lookups = << <<CourseX, 0>> >>
          /\ ~IsNone(executed[k].after[1].url)
    /\ \E k \in DocumentAnswers :
          /\ executed[k].results = ResultsHit
          /\ Len(executed[k].after) = 2
          /\ IsNone(executed[k].after[2].url)
          /\ Len(executed[k].lookups) = 1

\* The text expected for the pairs from the i-th on: header, newline, document, and
\* one blank line between two blocks.
RECURSIVE ExpectedBlocks(_, _)
ExpectedBlocks(results, i) ==
    IF i > PairCount(results) THEN <<>>
    ELSE <<"[">> \o BareHeader(results.metadata[i]) \o <<"]">> \o <<"\n">>
         \o results.documents[i]
         \o (IF i < PairCount(results) THEN <<"\n\n">> ELSE <<>>)
         \o ExpectedBlocks(results, i + 1)

TwoLessonsText ==
    <<"[", "Intro to X", " - Lesson ", "1", "]", "\n", "doc a", "\n\n",
      "[", "Intro to X", " - Lesson ", "2", "]", "\n", "doc b">>

\* C23: for non-empty results the search tool returns one block per (document,
\* metadata) pair in the order of the answer: "[<course title>]" or "[<course title> -
\* Lesson <n>]", a newline, the document text; the blocks are joined by one blank
\* line.  Two results from "Intro to X" lessons 1 and 2 give the two headers.
C23_BlocksInOrder ==
    pc = "runs" =>
        \A k \in DocumentAnswers :
            /\ ~executed[k].raised
            /\ executed[k].value = ExpectedBlocks(executed[k].results, 1)
            /\ executed[k].results = ResultsTwoLessons => executed[k].value = TwoLessonsText

\* C23 witness: lessons 1 and 2 of "Intro to X" were formatted, and an answer that
\* lists lesson 2 before lesson 1 came out with lesson 2 first.
C23_Witness ==
    /\ pc = "runs"
    /\ \E k \in DocumentAnswers :
          executed[k].results = ResultsTwoLessons /\ executed[k].value = TwoLessonsText
    /\ \E k \in DocumentAnswers :
          /\ executed[k].results = ResultsDescending
          /\ SubSeq(executed[k].value, 1, 5) = <<"[", "Intro to X", " - Lesson ", "2", "]">>

\* C24: when store.search() answers with an error text, the search tool returns that
\* text unchanged, whether or not the answer also holds documents; nothing is
\* formatted, no lesson link is looked up and the stored citations stay.
C24_ErrorVerbatim ==
    pc = "runs" =>
        \A k \in SearchAnswers :
            ErrorSignal(executed[k]) =>
                /\ ~executed[k].raised
                /\ executed[k].value = Get(executed[k].results.error)
                /\ executed[k].lookups = <<>>
                /\ executed[k].after = executed[k].before

\* C24 witness: an error that came with a document, and one that came with none,
\* were both returned as they were.
C24_Witness ==
    /\ pc = "runs"
    /\ \E k \in SearchAnswers :
          /\ executed[k].results = ResultsErrorWithDocs
          /\ executed[k].value = <<"Search error: partial failure">>
    /\ \E k \in SearchAnswers :
          /\ executed[k].results = ResultsError
          /\ executed[k].value = <<"Search error: store unavailable">>

\* C25: two executions of the search tool that get the same documents and metadata
\* from the store return the same text and store the same citations, whatever
\* citations were stored before each of them, however many executions came before
\* and whatever their arguments were; on the same empty answer and the same
\* arguments they return the same text.
C25_Repeatable ==
    pc = "runs" =>
        \A j, k \in SearchAnswers :
            (/\ ~ErrorSignal(executed[j]) /\ ~ErrorSignal(executed[k])
             /\ executed[j].results.documents = executed[k].results.documents
             /\ executed[j].results.metadata = executed[k].results.metadata) =>
                /\ j \in DocumentAnswers =>
                     /\ executed[j].value = executed[k].value
                     /\ executed[j].after = executed[k].after
                     /\ executed[j].lookups = executed[k].lookups
                /\ executed[j].kwargs = executed[k].kwargs =>
                     executed[j].value = executed[k].value

\* C25 witness: the same answer with documents was formatted twice, with different
\* arguments, the second time over the citations the first one stored.
C25_Witness ==
    /\ pc = "runs"
    /\ Len(executed) = 2
    /\ DocumentAnswers = {1, 2}
    /\ executed[1].results = executed[2].results
    /\ executed[1].kwargs # executed[2].kwargs
    /\ executed[1].before = <<>>
    /\ executed[2].before # <<>>
    /\ executed[1].value = executed[2].value
    /\ executed[1].after = executed[2].after

\* The executions of the outline tool that were given a course name and nothing else.
OutlineCalls ==
    { k \in 1..Len(executed) :
        /\ executed[k].tool = "outline1"
        /\ ~IsNone(executed[k].kwargs.course_name)
        /\ IsNone(executed[k].kwargs.query)
        /\ IsNone(executed[k].kwargs.lesson_number) }

NameResolved(run) == ~IsNone(run.outline.resolved) /\ Get(run.outline.resolved) # <<>>

\* C26: when the store resolves the given course name to nothing, the outline tool
\* returns "No course found matching '<name>'." and makes no catalog lookup.
C26_UnresolvedName ==
    pc = "runs" =>
        \A k \in OutlineCalls :
            ~NameResolved(executed[k]) =>
                /\ ~executed[k].raised
                /\ executed[k].value = <<"No course found matching '">>
                                       \o Get(executed[k].kwargs.course_name) \o <<"'.">>
                /\ executed[k].lookups = <<>>

\* C26 witness: the name "Zzzz" did not resolve.
C26_Witness ==
    /\ pc = "runs"
    /\ \E k \in OutlineCalls :
          /\ executed[k].kwargs = KwOutlineZzzz
          /\ executed[k].outline = OutlineUnresolved
          /\ executed[k].value = <<"No course found matching '", "Zzzz", "'.">>
          /\ executed[k].lookups = <<>>

\* The catalog lookup fails, gives no record or no metadata, or the serialized
\* lesson list is no JSON text or no list.
BrokenRecord(outline) ==
    \/ outline.raised
    \/ IsNone(outline.metadatas)
    \/ Len(Get(outline.metadatas)) = 0
    \/ IsNone(Get(outline.metadatas)[1])
    \/ LET metadata == Get(Get(outline.metadatas)[1])
       IN /\ ~IsNone(metadata.lessons_json)
          /\ ~(Get(metadata.lessons_json).valid /\ Get(metadata.lessons_json).objects)

\* C27: when the name resolves and the catalog lookup fails, gives no record or no
\* metadata, or the serialized lesson list is malformed, the outline tool returns an
\* error text ("Course '<title>' found but metadata is unavailable." or "Error
\* retrieving course outline: ...") after one catalog lookup, and does not raise.
C27_ErrorTextNeverRaises ==
    pc = "runs" =>
        \A k \in OutlineCalls :
            (NameResolved(executed[k]) /\ BrokenRecord(executed[k].outline)) =>
                /\ ~executed[k].raised
                /\ \/ executed[k].value =
                        <<"Course '">> \o Get(executed[k].outline.resolved)
                        \o <<"' found but metadata is unavailable.">>
                   \/ /\ Len(executed[k].value) > 1
                      /\ executed[k].value[1] = "Error retrieving course outline: "
                /\ executed[k].lookups = <<Get(executed[k].outline.resolved)>>

\* C27 witness: a malformed lesson list and a failing catalog lookup both ended in an
\* error text.
C27_Witness ==
    /\ pc = "runs"
    /\ \E k \in OutlineCalls :
          /\ executed[k].outline = OutlineMalformed
          /\ executed[k].value = <<"Error retrieving course outline: ", "Expecting value">>
    /\ \E k \in OutlineCalls :
          /\ executed[k].outline = OutlineLookupFails
          /\ ~executed[k].raised
          /\ executed[k].value[1] = "Error retrieving course outline: "

\* The messages of request b are those of request a, then the assistant message of
\* a's response, then one tool message per call it requested, in the order requested.
ExtendsByRound(a, b) ==
    LET n == Len(a.messages)
        calls == a.response.tool_calls
    IN /\ Len(b.messages) = n + 1 + Len(calls)
       /\ SubSeq(b.messages, 1, n) = a.messages
       /\ b.messages[n + 1].role = "assistant"
       /\ b.messages[n + 1].content = a.response.content
       /\ b.messages[n + 1].tool_calls = calls
       /\ \A j \in 1..Len(calls) :
             /\ b.messages[n + 1 + j].role = "tool"
             /\ b.messages[n + 1 + j].tool_call_id = Some(calls[j].id)

IsPrefix(short, long) ==
    Len(short) <= Len(long) /\ SubSeq(long, 1, Len(short)) = short

\* C30: within one generate_response() the transcript only grows: the first request
\* carries the system and the user message; a request after an answered one carries
\* the answered request's messages followed by the round's assistant message and its
\* tool results (lengths 2, 4, 6 with one call per round); an attempt after a failed
\* one carries the same messages; the transcript held by the call extends the last
\* request's, and no step alters or drops a message of it.
C30_AppendOnly ==
    /\ [](/\ Len(upstream) > 0 =>
               /\ Len(upstream[1].messages) = 2
               /\ upstream[1].messages[1].role = "system"
               /\ upstream[1].messages[2].role = "user"
               /\ IsPrefix(upstream[Len(upstream)].messages, messages)
          /\ \A i \in 1..(Len(upstream) - 1) :
                IF upstream[i].ok
                THEN /\ ExtendsByRound(upstream[i], upstream[i + 1])
                     /\ Len(upstream[i].response.tool_calls) = 1 =>
                           Len(upstream[i + 1].messages) = Len(upstream[i].messages) + 2
                ELSE upstream[i + 1].messages = upstream[i].messages)
    /\ [][pc # "idle" => /\ IsPrefix(messages, messages')
                         /\ IsPrefix(upstream, upstream')]_vars

\* C30 witness: three requests of 2, 4 and 6 messages, one call per round, the second
\* request answered by a fallback model after a failed attempt.
C30_Witness ==
    /\ pc = "done"
    /\ Len(upstream) = 4
    /\ Len(upstream[1].messages) = 2
    /\ upstream[1].ok
    /\ Len(upstream[2].messages) = 4
    /\ ~upstream[2].ok
    /\ upstream[3].messages = upstream[2].messages
    /\ upstream[3].ok
    /\ Len(upstream[4].messages) = 6
    /\ upstream[4].ok

\* The answered upstream calls of a query, in order.
OkCallsOf(q) == SelectSeq(upstream[q], IsOk)

\* The primary model of the k-th upstream call of query q: the active model for the
\* initial request, the model that answered the initial request for a follow-up.
QueryPrimary(q, k) ==
    IF \E j \in 1..(k - 1) : upstream[q][j].ok
    THEN OkCallsOf(q)[1].model
    ELSE current_model

\* The failed attempts that come right before the k-th upstream call of query q.
RECURSIVE FailedBefore(_, _)
FailedBefore(q, k) ==
    IF k = 1 \/ upstream[q][k - 1].ok THEN 0 ELSE 1 + FailedBefore(q, k - 1)

\* C28: no step of a generate_response() writes a field of the generator or of the
\* registry that a generate_response() reads (the active model, the fallback list,
\* the registered tools); what a query sends upstream is made of its own question,
\* its own responses and the chain that starts at the active model or at the model
\* that answered its own initial request, whatever the other query has written to
\* last_model_used in between; the citation lists are the only shared state a query
\* changes besides last_model_used, which no generate_response() reads.
C28_QueriesShareOnlyCitations ==
    /\ [][/\ current_model' = current_model
          /\ fallback_models' = fallback_models
          /\ tools' = tools
          /\ registrations' = registrations]_vars
    /\ [](\A q \in Queries :
            \A k \in 1..Len(upstream[q]) :
                LET call == upstream[q][k]
                IN /\ call.messages[2].content = Some(QueryText(q))
                   /\ \A r \in 1..Len(AssistantMessages(call.messages)) :
                         /\ AssistantMessages(call.messages)[r].tool_calls
                                = OkCallsOf(q)[r].response.tool_calls
                         /\ AssistantMessages(call.messages)[r].content
                                = OkCallsOf(q)[r].response.content
                   /\ call.model = ModelsToTry(QueryPrimary(q, k), fallback_models)
                                       [FailedBefore(q, k) + 1])

\* C28 witness: a query sent its follow-up request to the model that had answered its
\* own initial request while last_model_used held another model, written by the other
\* query.
C28_Witness ==
    \E q \in Queries :
        /\ Len(upstream[q]) >= 2
        /\ upstream[q][1].ok
        /\ upstream[q][2].model = upstream[q][1].model
        /\ upstream[q][2].last_used # upstream[q][1].model
        /\ upstream[q][2].ok

\* The calls of the log that are reads, and the executions that stored citations.
Reads == { i \in 1..Len(executed) : executed[i].op = "get_last_sources" }
Stores ==
    { i \in 1..Len(executed) :
        /\ executed[i].op = "execute_tool"
        /\ ~executed[i].raised
        /\ Len(executed[i].results.documents) > 0 }
Resets == { i \in 1..Len(executed) : executed[i].op = "reset_sources" }

\* The executions that stored citations before call i and after the last reset before it.
LiveStores(i) ==
    { j \in Stores : j < i /\ \A r \in Resets : ~(j < r /\ r < i) }

Latest(S) == CHOOSE j \in S : \A k \in S : k <= j

\* C29: the registry does not tell the queries apart: a get_last_sources() returns
\* the citations of the latest search that stored some since the latest
\* reset_sources(), whichever query made the search and whichever made the reset,
\* and the empty list when there is no such search.
C29_ReadsLatestOfAnyQuery ==
    \A i \in Reads :
        IF LiveStores(i) = {}
        THEN executed[i].value = <<>>
        ELSE executed[i].value = executed[Latest(LiveStores(i))].after["search1"]

\* C29 witness: one query read the citations the other query's search produced, and
\* the other query, whose search had stored citations, read the empty list after the
\* first query's reset.
C29_Witness ==
    \E p, q \in Queries :
        /\ p # q
        /\ \E s1, s2, rd1, rs, rd2 \in 1..Len(executed) :
              /\ s1 \in Stores /\ executed[s1].query = p
              /\ s2 \in Stores /\ executed[s2].query = q
              /\ rd1 \in Reads /\ executed[rd1].query = p
              /\ executed[rd1].value = executed[s2].after["search1"]
              /\ executed[rd1].value # executed[s1].after["search1"]
              /\ rs \in Resets /\ executed[rs].query = p
              /\ rd2 \in Reads /\ executed[rd2].query = q
              /\ s2 < rs /\ rs < rd2
              /\ executed[rd2].value = <<>>

\* The response asks for tools: a tool-call termination, or tool calls in the message.
RequestsTools(response) ==
    response.finish_reason = "tool_calls" \/ Len(response.tool_calls) > 0

\* C32: the round loop is entered (a round starts, a tool is dispatched, a follow-up
\* request is sent) only if the response to the initial request signals a tool-call
\* termination and a registry was passed; with tools supplied and no registry, a
\* response that requests tool calls is answered with its direct text after exactly
\* one successful upstream call, no tool is executed and nothing is added to the
\* transcript.
C32_LoopNeedsRegistry ==
    /\ (pc \in {"loop", "dispatch", "followup"} \/ Len(executed) > 0 \/ Len(OkCalls) > 1) =>
          /\ tool_manager
          /\ OkCalls[1].response.finish_reason = "tool_calls"
    /\ (/\ pc = "done"
        /\ tools_arg
        /\ ~tool_manager
        /\ Len(OkCalls) > 0
        /\ RequestsTools(OkCalls[1].response)) =>
          /\ Len(OkCalls) = 1
          /\ upstream[Len(upstream)].ok
          /\ result = Returned(OrEmpty(OkCalls[1].response.content))
          /\ executed = <<>>
          /\ Len(messages) = 2
          /\ last_sources = [t \in SearchTools |-> <<>>]

\* C32 witness: tools were supplied without a registry, the response signalled a
\* tool-call termination with one call, and the call returned after that one answer.
C32_Witness ==
    /\ pc = "done"
    /\ tools_arg
    /\ ~tool_manager
    /\ Len(OkCalls) = 1
    /\ OkCalls[1].tools
    /\ OkCalls[1].response.finish_reason = "tool_calls"
    /\ Len(OkCalls[1].response.tool_calls) = 1
    /\ executed = <<>>

\* The outbound requests are numbered in the order they are sent: the attempts of a
\* request are consecutive and no earlier request is sent again.
RequestsInOrder ==
    \A j, k \in 1..Len(upstream) :
        j < k => RequestOf(upstream[j].messages) <= RequestOf(upstream[k].messages)

\* C33: every generate_response() terminates; it sends at most 3 outbound requests
\* (the initial one and one follow-up per round), each attempted on at most as many
\* models as the fallback chain holds, and no request is sent again, so the upstream
\* attempts number at most 3 times the chain length.
C33_TerminatesWithinBudget ==
    /\ [](/\ \A k \in 1..Len(upstream) :
                RequestOf(upstream[k].messages) \in 0..MAX_TOOL_ROUNDS
          /\ RequestsInOrder
          /\ \A r \in 0..MAX_TOOL_ROUNDS :
                Len(AttemptsOf(r)) <= Len(ModelsToTry(current_model, fallback_models))
          /\ Len(upstream)
                <= (MAX_TOOL_ROUNDS + 1) * Len(ModelsToTry(current_model, fallback_models)))
    /\ <>(pc = "done")

\* C33 witness: a call that returned after 9 attempts, three for each of its three
\* outbound requests.
C33_Witness ==
    /\ pc = "done"
    /\ Len(upstream) = 9
    /\ \A r \in 0..2 : Len(AttemptsOf(r)) = 3

\* C36: the follow-up request of every round is attempted first on the model that
\* answered the initial request of this generate_response(), then on the configured
\* fallback models other than that model, in their configured order.
C36_FollowupStartsAtInitialModel ==
    \A r \in 1..MAX_TOOL_ROUNDS :
        \A k \in 1..Len(AttemptsOf(r)) :
            /\ k = 1 => AttemptsOf(r)[k].model = OkCalls[1].model
            /\ k > 1 => AttemptsOf(r)[k].model
                            = Without(fallback_models, OkCalls[1].model)[k - 1]

\* C36 witness: the configured primary is A, B answered the initial request, C
\* answered the follow-up of round 1, and the follow-up of round 2 went to B first.
C36_Witness ==
    /\ current_model = "A"
    /\ Len(OkCalls) >= 2
    /\ OkCalls[1].model = "B"
    /\ OkCalls[2].model = "C"
    /\ Len(AttemptsOf(2)) >= 1
    /\ AttemptsOf(2)[1].model = "B"

\* The executions of the outline tool that rendered a record.
RenderedOutlines ==
    { k \in OutlineCalls :
        NameResolved(executed[k]) /\ ~BrokenRecord(executed[k].outline) }

\* The record an execution rendered, and its lessons in stored order.
RecordOf(run) == Get(Get(run.outline.metadatas)[1])
LessonsOf(run) ==
    IF IsNone(RecordOf(run).lessons_json) THEN <<>>
    ELSE Get(RecordOf(run).lessons_json).lessons

\* The lesson has no link: the key is missing, or it is there with null.
HasNoLink(lesson) == IsNone(lesson.lesson_link) \/ Get(lesson.lesson_link) = JsonNull

\* The text after "  Link: " when every lesson without a link gets the placeholder.
LinkShown(lesson) ==
    IF HasNoLink(lesson) THEN <<"Not available">> ELSE Get(lesson.lesson_link)

\* The text after "  Link: " as rendered: the placeholder stands for a missing key, a
\* null link is printed as None.
LinkRendered(lesson) ==
    IF IsNone(lesson.lesson_link) THEN <<"Not available">>
    ELSE IF Get(lesson.lesson_link) = JsonNull THEN <<"None">>
    ELSE Get(lesson.lesson_link)

\* The lines of the outline up to the lessons.
OutlineHead(record) ==
    << <<"**Course Title:** ">> \o Get(record.title),
       <<"**Instructor:** ">> \o Get(record.instructor),
       <<"**Course Link:** ">>
           \o (IF IsNone(record.course_link) THEN <<"Not available">>
               ELSE Get(record.course_link)),
       <<>>,
       <<"**Lessons:**">> >>

\* Line i of an outline made of text lines joined by "\n".
RECURSIVE SplitLines(_)
SplitLines(text) ==
    IF \E i \in 1..Len(text) : text[i] = "\n"
    THEN LET i == CHOOSE j \in 1..Len(text) :
                      text[j] = "\n" /\ \A h \in 1..(j - 1) : text[h] # "\n"
         IN <<SubSeq(text, 1, i - 1)>> \o SplitLines(SubSeq(text, i + 1, Len(text)))
    ELSE <<text>>

\* The outline is the head, then for lesson i a number+title line and a link line
\* whose link text is given by `link`.
RendersWith(run, link(_)) ==
    LET lines == SplitLines(run.value)
        lessons == LessonsOf(run)
    IN /\ ~run.raised
       /\ Len(lines) = 5 + 2 * Len(lessons)
       /\ SubSeq(lines, 1, 5) = OutlineHead(RecordOf(run))
       /\ \A i \in 1..Len(lessons) :
             /\ lines[5 + 2 * i - 1]
                   = <<"- Lesson ", ToString(Get(lessons[i].lesson_number)), ": ">>
                     \o Get(lessons[i].lesson_title)
             /\ lines[5 + 2 * i] = <<"  Link: ">> \o link(lessons[i])

\* C34 as stated: the outline is the title, the instructor, the course link, then per
\* lesson in stored order a number+title line and a link line, and the link line
\* shows "Not available" whenever the lesson has no link.
C34_PlaceholderWhenNoLink ==
    pc = "runs" => \A k \in RenderedOutlines : RendersWith(executed[k], LinkShown)

\* C34, what the code does: the same fixed order, lessons in stored order; the link
\* line shows "Not available" when the lesson has no lesson_link key, and None when
\* the key is there with null.
C34_FixedOrder ==
    pc = "runs" => \A k \in RenderedOutlines : RendersWith(executed[k], LinkRendered)

\* C34 witness: an outline of three lessons stored as 2, 1, 3 was rendered, lesson 1
\* having a null link; another with a lesson that has no link key showed the
\* placeholder.
C34_Witness ==
    /\ pc = "runs"
    /\ \E k \in RenderedOutlines :
          /\ executed[k].outline = OutlineNullLink
          /\ SplitLines(executed[k].value)[9] = <<"  Link: ", "None">>
    /\ \E k \in RenderedOutlines :
          /\ executed[k].outline = OutlineFound
          /\ SplitLines(executed[k].value)[9] = <<"  Link: ", "Not available">>

\* The named categories of a description, by case-insensitive substring match.
NamedCategory(e) == ConnectivityRelated(e) \/ CertificateRelated(e) \/ TimeoutRelated(e)

\* C38 as stated: for one final failure description the exhausted initial chain and
\* the exhausted follow-up chain give the caller the same string, whatever the
\* category.
C38_SameStringAllCategories ==
    pc = "classify" =>
        \A i, j \in 1..Len(executed) :
            executed[i].description = executed[j].description =>
                executed[i].value = executed[j].value

\* C38, what the code does: the two paths give the same string for a description of
\* the connectivity, certificate/SSL or timeout category; for any other description
\* the initial path gives "I'm experiencing technical difficulties. Error: " with at
\* most the first 100 characters of the description and the follow-up path gives
\* "I'm experiencing technical difficulties processing your request.".
C38_SameStringNamedCategories ==
    pc = "classify" =>
        \A i, j \in 1..Len(executed) :
            LET e == executed[i].description
            IN executed[j].description = e =>
                  IF NamedCategory(e)
                  THEN executed[i].value = executed[j].value
                  ELSE /\ executed[i].path = "initial" =>
                             executed[i].value
                                 = <<"I'm experiencing technical difficulties. Error: ">>
                                   \o SubSeq(e, 1, IF Len(e) < 100 THEN Len(e) ELSE 100)
                       /\ executed[i].path = "round" =>
                             executed[i].value
                                 = <<"I'm experiencing technical difficulties processing your request.">>

\* C38 witness: the description "failed failed" went through both paths and the two
\* strings differ.
C38_Witness ==
    /\ pc = "classify"
    /\ Len(executed) = 2
    /\ executed[1].path # executed[2].path
    /\ executed[1].description = JoinWords(<<WordFailed, WordFailed>>)
    /\ executed[1].value # executed[2].value

\* C39: on both paths the categories are tried in the order connectivity,
\* certificate/SSL, timeout: a description with a connectivity marker gets the
\* connectivity message whatever else it mentions, one without it but with a
\* certificate or SSL marker gets the certificate message also when it mentions a
\* timeout, and the timeout message is left for descriptions with the timeout marker
\* only; the position and the case of the markers do not matter, and the string is
\* exactly one category's message.
C39_Precedence ==
    pc = "classify" =>
        \A i \in 1..Len(executed) :
            LET e == executed[i].description
                v == executed[i].value
            IN /\ ConnectivityRelated(e) =>
                     v = <<"I'm unable to connect to the AI service. Please check your network connection or try again later.">>
               /\ ~ConnectivityRelated(e) /\ CertificateRelated(e) =>
                     v = <<"I'm experiencing SSL/certificate issues connecting to the AI service. Please contact support.">>
               /\ ~ConnectivityRelated(e) /\ ~CertificateRelated(e) /\ TimeoutRelated(e) =>
                     v = <<"The AI service request timed out. Please try again.">>
               /\ ~NamedCategory(e) =>
                     v \notin { <<"I'm unable to connect to the AI service. Please check your network connection or try again later.">>,
                                <<"I'm experiencing SSL/certificate issues connecting to the AI service. Please contact support.">>,
                                <<"The AI service request timed out. Please try again.">> }

\* C39 witness: "Timeout CONNECT", which mentions a timeout first and the
\* connectivity marker second and in capitals, got the connectivity message on both
\* paths.
C39_Witness ==
    /\ pc = "classify"
    /\ Len(executed) = 2
    /\ executed[1].path # executed[2].path
    /\ executed[1].description = JoinWords(<<WordTimeout, WordConnectUpper>>)
    /\ TimeoutRelated(executed[1].description)
    /\ executed[1].value = MsgConnect
    /\ executed[2].value = MsgConnect

\* The host's log entry that started generate_response() number n.
GenerateOf(n) ==
    executed[CHOOSE i \in 1..Len(executed) :
                 executed[i].op = "generate" /\ executed[i].call = n]

\* The two messages a call with this query and history starts from.
TwoMessages(query, history) ==
    << [role |-> "system",
        content |-> Some(IF IsNone(history) THEN <<"SYSTEM_PROMPT">>
                         ELSE <<"SYSTEM_PROMPT", "\n\nPrevious conversation:\n">>
                              \o Get(history)),
        tool_calls |-> <<>>, tool_call_id |-> None],
       [role |-> "user", content |-> Some(query), tool_calls |-> <<>>,
        tool_call_id |-> None] >>

\* C31: the first outbound request of every generate_response() of a session, on
\* every model it is attempted on, carries exactly two messages, the system
\* instructions (followed by the history when one was supplied to this call) and the
\* query of this call, whatever the calls before did.
C31_FreshTranscript ==
    \A n \in 1..CallsStarted :
        LET attempts == AttemptsOfCall(n)
            expected == TwoMessages(<<"question ", ToString(n)>>, GenerateOf(n).history)
        IN /\ Len(attempts) > 0 => attempts[1].messages = expected
           /\ \A k \in 1..Len(attempts) :
                 RequestOf(attempts[k].messages) = 0 => attempts[k].messages = expected
           /\ (n = CallsStarted /\ pc = "initial") => messages = expected

\* C31 witness: the first call ran a tool round and then failed on every model of
\* the follow-up chain; the second call, given a history, sent its two messages.
C31_Witness ==
    /\ CallsStarted = 2
    /\ \E k \in 1..Len(AttemptsOfCall(1)) : Len(AttemptsOfCall(1)[k].messages) = 4
    /\ Len(AttemptsOfCall(1)) = 4
    /\ ~AttemptsOfCall(1)[4].ok
    /\ ~IsNone(GenerateOf(2).history)
    /\ Len(AttemptsOfCall(2)) > 0
    /\ Len(AttemptsOfCall(2)[1].messages) = 2

\* The searches of call n that found something, as places in the host's log.
OwnStores(n) ==
    { j \in 1..Len(executed) :
        /\ executed[j].op = "execute_tool"
        /\ executed[j].call = n
        /\ Len(executed[j].results.documents) > 0 }

\* The read at place i closes a serialized use of the registry: reset_sources(), then
\* the generate_response() it belongs to, then the read.
SerializedRead(i) ==
    /\ executed[i].op = "get_last_sources"
    /\ \E g \in 2..(i - 1) :
          /\ executed[g].op = "generate"
          /\ executed[g].call = executed[i].call
          /\ executed[g - 1].op = "reset_sources"

\* C35: when the host calls reset_sources(), then generate_response(), then
\* get_last_sources(), the read returns the citations of the most recent search of
\* that generate_response() which found something, and the empty list when none of
\* its searches did, whatever the queries before left behind.
C35_SerializedReadsOwn ==
    \A i \in 1..Len(executed) :
        SerializedRead(i) =>
            IF OwnStores(executed[i].call) = {}
            THEN executed[i].value = <<>>
            ELSE /\ executed[i].value
                       = executed[Latest(OwnStores(executed[i].call))].after["search1"]
                 /\ Len(executed[i].value)
                       = Len(executed[Latest(OwnStores(executed[i].call))].results.metadata)

\* C35 witness: the first query left citations behind; after a reset the second query
\* searched twice, finding something and then nothing, and read the citations of its
\* first search, which are not those of the first query.
C35_Witness ==
    \E i, j \in 1..Len(executed) :
        /\ j < i
        /\ executed[j].op = "get_last_sources" /\ executed[j].call = 1
        /\ Len(executed[j].value) > 0
        /\ SerializedRead(i) /\ executed[i].call = 2
        /\ Len(SelectSeq(executed, LAMBDA op : op.op = "execute_tool" /\ op.call = 2)) = 2
        /\ Cardinality(OwnStores(2)) = 1
        /\ executed[i - 1].op = "execute_tool" /\ executed[i - 1].results = ResultsEmpty
        /\ Len(executed[i].value) > 0
        /\ executed[i].value # executed[j].value

\* The model set_model was last given before place i of the host's log, the
\* configured one if it was never called.
RECURSIVE ActiveAt(_)
ActiveAt(i) ==
    IF i = 0 THEN "A"
    ELSE IF executed[i].op = "set_model" THEN executed[i].model
    ELSE ActiveAt(i - 1)

\* C37: a step changes the active model only if it is a set_model(m), and then to m;
\* get_current_model() gives the same model when a generate_response() starts and
\* after it returned, also when a fallback model served the answer; the first attempt
\* of every generate_response() goes to the model last given to set_model, or to the
\* configured model if there was none.
C37_OnlySetModelChangesModel ==
    /\ [][current_model' # current_model =>
             /\ Len(executed') = Len(executed) + 1
             /\ executed'[Len(executed')].op = "set_model"]_vars
    /\ [][(/\ Len(executed') = Len(executed) + 1
           /\ executed'[Len(executed')].op = "set_model") =>
             current_model' = executed'[Len(executed')].model]_vars
    /\ [](\A i \in 1..Len(executed) :
            /\ executed[i].op \in {"generate", "get_last_sources"} =>
                  executed[i].model = ActiveAt(i)
            /\ executed[i].op = "generate" /\ Len(AttemptsOfCall(executed[i].call)) > 0 =>
                  AttemptsOfCall(executed[i].call)[1].model = ActiveAt(i))

\* C37 witness: with A active the first call was served by the fallback B and
\* get_current_model() still gave A; the host then called set_model("C") and the
\* second call went to C first.
C37_Witness ==
    /\ CallsStarted = 2
    /\ Len(AttemptsOfCall(1)) = 2
    /\ AttemptsOfCall(1)[1].model = "A" /\ ~AttemptsOfCall(1)[1].ok
    /\ AttemptsOfCall(1)[2].model = "B" /\ AttemptsOfCall(1)[2].ok
    /\ \E i \in 1..Len(executed) :
          /\ executed[i].op = "get_last_sources"
          /\ executed[i].call = 1
          /\ executed[i].model = "A"
          /\ executed[i + 1].op = "set_model"
          /\ executed[i + 1].model = "C"
    /\ Len(AttemptsOfCall(2)) > 0
    /\ AttemptsOfCall(2)[1].model = "C"

====
